---- MODULE Spec2Model ----
(***************************************************************************)
(* Model of the voting / maxima engine of PointCloudDonkey                 *)
(* (src/src/implicit_shape_model/voting/voting.cpp, class ism3d::Voting).  *)
(*                                                                         *)
(* Conventions                                                             *)
(*  - a std::map is a function whose DOMAIN is the set of keys             *)
(*  - a std::vector is a sequence (index k of the code is k+1 here, except *)
(*    for voteIndices, which keep the code's 0-based values)               *)
(*  - a float is an extended rational [n, d] with d >= 0: d = 0 stands for *)
(*    +inf (n = 1), -inf (n = -1) and NaN (n = 0), so that x / 0 and the   *)
(*    comparisons with NaN behave as in IEEE arithmetic; rounding is not   *)
(*    modelled                                                             *)
(*  - a 3D position is one coordinate; the norm is the absolute value      *)
(***************************************************************************)
EXTENDS Integers, Sequences, FiniteSets, TLC

(***************************************************************************)
(* Bounds of the model                                                     *)
(***************************************************************************)
\* number of vote() calls issued in one run of the vote store
MaxCalls == 3
\* number of maxima in an input list of filterMaxima / normalizeWeights
MaxMaxima == 3
\* number of votes in the store a detection pass starts from
MaxStoreVotes == 2
\* number of clusters the clustering strategy returns for one class
MaxClusters == 2
\* loads of learned data in one engine lifetime
MaxLoads == 2
\* classifyGlobalFeatures calls in one engine lifetime
MaxQueries == 3
\* saves of one engine
MaxSaves == 1
\* training boxes of one class
MaxBoxes == 2

Workers == {1, 2}
Classes == {1, 2}
Positions == {0, 1, 2}
VoteWeights == {0, 1}

(***************************************************************************)
(* Floats as extended rationals                                            *)
(***************************************************************************)
Abs(x) == IF x < 0 THEN -x ELSE x

Sign(x) == IF x < 0 THEN -1 ELSE IF x > 0 THEN 1 ELSE 0

RECURSIVE Gcd(_, _)
Gcd(a, b) == IF b = 0 THEN a ELSE Gcd(b, a % b)

\* canonical form: lowest terms, d >= 0, and (1,0) (-1,0) (0,0) for inf, -inf, NaN
Norm(n, d) ==
    IF d = 0 THEN [n |-> Sign(n), d |-> 0]
    ELSE LET g == Gcd(Abs(n), Abs(d))
             s == IF d < 0 THEN -1 ELSE 1
         IN [n |-> s * (n \div g), d |-> s * (d \div g)]

R(k) == [n |-> k, d |-> 1]
Zero == R(0)
One == R(1)
NaN == [n |-> 0, d |-> 0]

IsNaN(a) == a.n = 0 /\ a.d = 0
IsFinite(a) == a.d > 0

Add(a, b) == Norm(a.n * b.d + b.n * a.d, a.d * b.d)
Neg(a) == [n |-> -a.n, d |-> a.d]
Sub(a, b) == Add(a, Neg(b))
Mul(a, b) == Norm(a.n * b.n, a.d * b.d)
\* a / b; the sign of b moves to the numerator so that d stays >= 0
Div(a, b) == IF b.n < 0 THEN Norm(-(a.n * b.d), a.d * (-b.n))
             ELSE Norm(a.n * b.d, a.d * b.n)

\* IEEE comparisons: every comparison with NaN is false
Lt(a, b) == ~IsNaN(a) /\ ~IsNaN(b) /\ a.n * b.d < b.n * a.d
Gt(a, b) == Lt(b, a)
Le(a, b) == ~IsNaN(a) /\ ~IsNaN(b) /\ ~Lt(b, a)
Ge(a, b) == Le(b, a)
AbsR(a) == [n |-> Abs(a.n), d |-> a.d]

RECURSIVE SumSeq(_, _)
\* float sum = 0; for (x : s) sum += f(x)  (f given as a sequence of floats)
SumSeq(s, k) == IF k = 0 THEN Zero ELSE Add(SumSeq(s, k - 1), s[k])

SeqSum(s) == SumSeq(s, Len(s))

SeqToSet(s) == {s[i] : i \in DOMAIN s}

VARIABLES
    m_votes,     \* std::map<unsigned, std::vector<Vote>>
    wpc,         \* per worker: where it is in vote()
    wvote,       \* per worker: the local newVote
    wlen,        \* per worker: the size push_back read
    critical,    \* holder of the unnamed omp critical section, 0 when free
    nextUid,     \* number of vote() calls issued so far
    returned,    \* history: the votes whose vote() call has returned since the last clear()
    overlap,     \* history: two vote() calls were in flight at the same time
    getResult,   \* outcome of the last getVotes(classId) call
    params,      \* the configuration fields set by addParameter (m_radiusType, m_bestK, ...)
    m_id_bb_dimensions_map,  \* std::map<unsigned, std::pair<float, float>>
    f_in,        \* filterMaxima / normalizeWeights: the argument maxima
    f_merge,     \* filterMaxima: the argument merge
    f_pc,        \* filterMaxima: "loop" while the outer loop runs, "done" after the return
    f_i,         \* filterMaxima: the outer loop index i (1-based)
    f_dirty,     \* filterMaxima: dirty_list
    f_out,       \* filterMaxima: filtered_maxima; normalizeWeights: the list afterwards
    f_groups,    \* history: per processed seed, the seed, the captured indices, the emitted maximum
    n_sum,       \* history: the sums normalizeWeights divided by
    m_single_object_mode,  \* set by setGlobalFeatures
    scene,       \* findMaxima: the centroid of points and the distance of its farthest point
    fm_pc,       \* findMaxima: the stage the call is in
    fm_classes,  \* findMaxima: the class ids the iterator it has still to visit
    fm_clusters, \* findMaxima: what iFindMaxima returned for the current class
    fm_pending,  \* findMaxima: the iterations of the parallel for not yet run
    fm_maxima,   \* findMaxima: the local list maxima
    fm_result,   \* findMaxima: the returned list
    fm_strategy, \* history: per class, what iFindMaxima returned
    fm_origin,   \* history: per maximum appended by the parallel for, its <<class, cluster>>
    fm_created,  \* history: the maxima created by aggregation, reducers and mergeMaxima
    fm_ranked,   \* history: the list each stage left behind ("policy": before the second sort)
    fm_sums,     \* history: the sums the calls of normalizeWeights divided by
    m_svm_error,            \* set by a load that finds no usable classifier file
    m_index_created,        \* the guard flag of buildIndex
    m_flann_helper,         \* the helper a load made: its database and index
    m_id_bb_variance_map,   \* std::map<unsigned, std::pair<float, float>>
    m_average_radii,        \* std::map<unsigned, float>
    m_all_global_features_cloud,  \* per class the radius of its descriptor
    cg_pc,       \* per worker: where it is in classifyGlobalFeatures
    cg_method,   \* history: per worker, the strategy configured when its call entered
    e_pending,   \* the clusters the parallel loop of findMaxima has still to classify
    e_builds,    \* history: the buildIndex calls so far
    e_queries,   \* history: per query run so far, the strategy and the state of the index
    e_loads,     \* history: the loads so far, each with its input and its outcome
    e_unavailable, \* history: a load has recorded the classifier as unavailable
    m_global_features,  \* std::map: per class the radius of its descriptor, as trained
    e_saved,     \* history: the saves so far, each with what it wrote
    boundingBoxes  \* history: the boxes each determineAverageBoundingBoxDimensions call got

engineVars == <<m_svm_error, m_index_created, m_flann_helper, m_id_bb_variance_map,
                m_average_radii, m_all_global_features_cloud, cg_pc, cg_method, e_pending, e_builds, e_queries, e_loads,
                e_unavailable, m_global_features, e_saved, boundingBoxes>>

voteVars == <<m_votes, wpc, wvote, wlen, critical, nextUid, returned, overlap, getResult>>

(***************************************************************************)
(* 4.1 vote store                                                          *)
(***************************************************************************)
NoVote == [position |-> 0, weight |-> 0, classId |-> 0, uid |-> 0]

NoResult == [called |-> FALSE]

Votes(uid) ==
    {[position |-> p, weight |-> w, classId |-> c, uid |-> uid] :
        p \in Positions, w \in VoteWeights, c \in Classes}

EmptyStore == [c \in {} |-> <<>>]

\* m_votes[classId]: operator[] inserts an empty vector for a new key
Bucket(store, c) == IF c \in DOMAIN store THEN store[c] ELSE <<>>

PutBucket(store, c, b) == [k \in DOMAIN store \cup {c} |-> IF k = c THEN b ELSE store[k]]

\* m_flann_helper before the first load: a null pointer
NoHelper == [made |-> FALSE, db |-> <<>>, built |-> FALSE]

\* Voting::Voting(), lines 42-43: nothing loaded, no classifier call in flight
EngineIdle ==
    /\ m_svm_error = FALSE
    /\ m_index_created = FALSE
    /\ m_flann_helper = NoHelper
    /\ m_id_bb_variance_map = <<>>
    /\ m_average_radii = <<>>
    /\ m_all_global_features_cloud = <<>>
    /\ cg_pc = [w \in Workers |-> "idle"]
    /\ cg_method = [w \in Workers |-> "none"]
    /\ e_pending = {}
    /\ e_builds = 0
    /\ e_queries = <<>>
    /\ e_loads = <<>>
    /\ e_unavailable = FALSE
    /\ m_global_features = <<>>
    /\ e_saved = <<>>
    /\ boundingBoxes = <<>>

\* no vote() call in flight
VoteIdle ==
    /\ EngineIdle
    /\ wpc = [w \in Workers |-> "idle"]
    /\ wvote = [w \in Workers |-> NoVote]
    /\ wlen = [w \in Workers |-> 0]
    /\ critical = 0
    /\ nextUid = 0
    /\ returned = {}
    /\ overlap = FALSE
    /\ getResult = NoResult

VoteInit == m_votes = EmptyStore /\ VoteIdle

AllIdle == \A w \in Workers : wpc[w] = "idle"

\* vote(): lines 65-71, the local newVote is filled in
VoteBuild(w) ==
    /\ wpc[w] = "idle"
    /\ nextUid < MaxCalls
    /\ \E v \in Votes(nextUid + 1) :
          wvote' = [wvote EXCEPT ![w] = v]
    /\ nextUid' = nextUid + 1
    /\ wpc' = [wpc EXCEPT ![w] = "built"]
    /\ getResult' = NoResult
    /\ overlap' = (overlap \/ \E o \in Workers \ {w} : wpc[o] # "idle")
    /\ UNCHANGED <<m_votes, wlen, critical, returned>>

CanEnter_NoCritical(w) == TRUE

\* #pragma omp critical: one thread at a time
CanEnter(w) == critical = 0

\* entering the critical section; push_back reads the size of the bucket
VoteEnter(w) ==
    /\ wpc[w] = "built"
    /\ CanEnter(w)
    /\ critical' = w
    /\ wlen' = [wlen EXCEPT ![w] = Len(Bucket(m_votes, wvote[w].classId))]
    /\ wpc' = [wpc EXCEPT ![w] = "pushing"]
    /\ UNCHANGED <<m_votes, wvote, nextUid, returned, overlap, getResult>>

\* push_back stores the element behind the size it read; the section is left
VoteAppend(w) ==
    /\ wpc[w] = "pushing"
    /\ LET c == wvote[w].classId
           b == Bucket(m_votes, c)
           kept == SubSeq(b, 1, IF wlen[w] < Len(b) THEN wlen[w] ELSE Len(b))
       IN m_votes' = PutBucket(m_votes, c, Append(kept, wvote[w]))
    /\ critical' = IF critical = w THEN 0 ELSE critical
    /\ returned' = returned \cup {wvote[w]}
    /\ wpc' = [wpc EXCEPT ![w] = "idle"]
    /\ wvote' = [wvote EXCEPT ![w] = NoVote]
    /\ wlen' = [wlen EXCEPT ![w] = 0]
    /\ UNCHANGED <<nextUid, overlap, getResult>>

getVotes_Inserting(store, c) ==
    [notFound |-> FALSE, votes |-> Bucket(store, c),
     store |-> PutBucket(store, c, Bucket(store, c))]

\* getVotes(classId) const: throws when find() misses, else returns the bucket;
\* the map is only read
getVotes(store, c) ==
    [notFound |-> c \notin DOMAIN store,
     votes |-> IF c \in DOMAIN store THEN store[c] ELSE <<>>,
     store |-> store]

GetVotes(c) ==
    /\ AllIdle
    /\ LET r == getVotes(m_votes, c)
       IN /\ getResult' = [called |-> TRUE, classId |-> c, notFound |-> r.notFound,
                           votes |-> r.votes, before |-> m_votes]
          /\ m_votes' = r.store
    /\ UNCHANGED <<wpc, wvote, wlen, critical, nextUid, returned, overlap>>

\* clear(): m_votes.clear()
Clear ==
    /\ AllIdle
    /\ m_votes' = EmptyStore
    /\ returned' = {}
    /\ getResult' = NoResult
    /\ UNCHANGED <<wpc, wvote, wlen, critical, nextUid, overlap>>

VoteNext ==
    \/ \E w \in Workers : VoteBuild(w)
    \/ \E w \in Workers : VoteEnter(w)
    \/ \E w \in Workers : VoteAppend(w)
    \/ \E c \in Classes : GetVotes(c)
    \/ Clear



(***************************************************************************)
(* Maxima                                                                  *)
(***************************************************************************)
Hypothesis(c, score) == [first |-> c, second |-> score]

\* VotingMaximum(): the accumulator mergeMaxima and filterMaxima start from
DefaultMax ==
    [classId |-> 0, position |-> Zero, weight |-> Zero, size |-> Zero,
     voteIndices |-> <<>>,
     globalHypothesis |-> Hypothesis(0, Zero),
     currentClassHypothesis |-> Hypothesis(0, Zero)]

Maximum(c, pos, w, sz, idx) ==
    [DefaultMax EXCEPT !.classId = c, !.position = pos, !.weight = w, !.size = sz,
                       !.voteIndices = idx]

Weights(maxima) == [k \in DOMAIN maxima |-> maxima[k].weight]

RECURSIVE SortedSeq(_)
\* the elements of a set of numbers in increasing order (iteration order of a std::map)
SortedSeq(S) ==
    IF S = {} THEN <<>>
    ELSE LET m == CHOOSE x \in S : \A y \in S : x <= y
         IN <<m>> \o SortedSeq(S \ {m})

\* getSearchDistForClass(class_id): 0 when m_radiusType matches none of the three names
getSearchDistForClass(class_id) ==
    IF params.m_radiusType = "Config" THEN params.m_radius
    ELSE IF params.m_radiusType = "FirstDim"
         THEN Mul(m_id_bb_dimensions_map[class_id].first, params.m_radiusFactor)
    ELSE IF params.m_radiusType = "SecondDim"
         THEN Mul(m_id_bb_dimensions_map[class_id].second, params.m_radiusFactor)
    ELSE Zero

Dist(a, b) == AbsR(Sub(a, b))

\* one iteration of the loop of mergeMaxima: m is merged into the running result
MergeInto(result, m) ==
    LET wsum == Add(result.weight, m.weight)
        pos == Div(Add(Mul(result.position, result.weight), Mul(m.position, m.weight)), wsum)
        sz == Div(Add(Mul(result.size, result.weight), Mul(m.size, m.weight)), wsum)
    IN [classId |-> m.classId, position |-> pos, weight |-> wsum, size |-> sz,
        voteIndices |-> result.voteIndices \o m.voteIndices,
        globalHypothesis |-> m.globalHypothesis,
        currentClassHypothesis |-> m.currentClassHypothesis]

RECURSIVE MergeUpTo(_, _)
MergeUpTo(max_list, k) ==
    IF k = 0 THEN DefaultMax ELSE MergeInto(MergeUpTo(max_list, k - 1), max_list[k])

\* mergeMaxima(max_list)
mergeMaxima(max_list) == MergeUpTo(max_list, Len(max_list))

Absorbs_IgnoringOtherRadius(maxima, i, j) ==
    Lt(Dist(maxima[j].position, maxima[i].position), getSearchDistForClass(maxima[i].classId))

\* filterMaxima, line 491: j is subsumed by i
Absorbs(maxima, i, j) ==
    LET search_dist == getSearchDistForClass(maxima[i].classId)
        dist == Dist(maxima[j].position, maxima[i].position)
        other_search_dist == getSearchDistForClass(maxima[j].classId)
    IN Lt(dist, search_dist) /\ Le(other_search_dist, search_dist)

\* filterMaxima, lines 483-496: the indices j the inner loop captures, in loop order
Captured(maxima, dirty, i) ==
    SelectSeq([k \in 1..(Len(maxima) - i) |-> i + k],
              LAMBDA j : ~dirty[j] /\ Absorbs(maxima, i, j))

\* filterMaxima, lines 483-502: close_maxima before the merge
CloseMaxima(maxima, dirty, i) ==
    LET cap == Captured(maxima, dirty, i)
    IN IF Len(cap) > 0
       THEN [k \in 1..Len(cap) |-> maxima[cap[k]]] \o <<maxima[i]>>
       ELSE <<>>

\* filterMaxima, lines 507-529: N default maxima, then one merged maximum per class id
MergedClose(maxima, close) ==
    LET ids == SortedSeq({close[k].classId : k \in DOMAIN close})
        same(c) == SelectSeq(close, LAMBDA m : m.classId = c)
    IN [k \in 1..Len(maxima) |-> DefaultMax]
         \o [k \in 1..Len(ids) |-> mergeMaxima(same(ids[k]))]

RECURSIVE BestUpTo(_, _)
\* filterMaxima, lines 535-542: best_max after the first k elements of close_maxima
BestUpTo(close, k) ==
    IF k = 0 THEN DefaultMax
    ELSE LET best == BestUpTo(close, k - 1)
         IN IF Gt(close[k].weight, best.weight) THEN close[k] ELSE best

FilterSeed_NotMarking(maxima, dirty, i, merge) ==
    LET cap == Captured(maxima, dirty, i)
        close0 == CloseMaxima(maxima, dirty, i)
        close == IF merge /\ Len(close0) > 1 THEN MergedClose(maxima, close0) ELSE close0
        emitted == IF Len(close) > 1 THEN BestUpTo(close, Len(close)) ELSE maxima[i]
    IN [captured |-> cap, dirty |-> dirty, emitted |-> emitted]

\* filterMaxima, lines 476-549: the body of the outer loop for a seed i that is not dirty
FilterSeed(maxima, dirty, i, merge) ==
    LET cap == Captured(maxima, dirty, i)
        close0 == CloseMaxima(maxima, dirty, i)
        close == IF merge /\ Len(close0) > 1 THEN MergedClose(maxima, close0) ELSE close0
        emitted == IF Len(close) > 1 THEN BestUpTo(close, Len(close)) ELSE maxima[i]
    IN [captured |-> cap,
        dirty |-> [j \in DOMAIN dirty |->
                      dirty[j] \/ \E k \in DOMAIN cap : cap[k] = j],
        emitted |-> emitted]

RECURSIVE FilterFrom(_, _, _, _, _)
FilterFrom(maxima, dirty, i, merge, out) ==
    IF i > Len(maxima) THEN out
    ELSE IF dirty[i] THEN FilterFrom(maxima, dirty, i + 1, merge, out)
    ELSE LET r == FilterSeed(maxima, dirty, i, merge)
         IN FilterFrom(maxima, r.dirty, i + 1, merge, Append(out, r.emitted))

RECURSIVE FilterMerged(_, _, _)
\* filterMaxima(maxima, true), lines 504-530: every maximum the calls of
\* mergeMaxima return, for the seeds from index i on
FilterMerged(maxima, dirty, i) ==
    IF i > Len(maxima) THEN {}
    ELSE IF dirty[i] THEN FilterMerged(maxima, dirty, i + 1)
    ELSE LET r == FilterSeed(maxima, dirty, i, TRUE)
             close == CloseMaxima(maxima, dirty, i)
             ids == {close[k].classId : k \in DOMAIN close}
         IN (IF Len(close) > 1
             THEN {mergeMaxima(SelectSeq(close, LAMBDA m : m.classId = c)) : c \in ids}
             ELSE {})
            \cup FilterMerged(maxima, r.dirty, i + 1)

\* filterMaxima(maxima, merge)
filterMaxima(maxima, merge) ==
    FilterFrom(maxima, [j \in DOMAIN maxima |-> FALSE], 1, merge, <<>>)

normalizeWeights_LastOnly(maxima) ==
    LET sum == IF Len(maxima) = 0 THEN Zero ELSE maxima[Len(maxima)].weight
    IN [k \in DOMAIN maxima |-> [maxima[k] EXCEPT !.weight = Div(@, sum)]]

\* normalizeWeights(maxima): the list afterwards
normalizeWeights(maxima) ==
    LET sum == SeqSum(Weights(maxima))
    IN [k \in DOMAIN maxima |-> [maxima[k] EXCEPT !.weight = Div(@, sum)]]


(***************************************************************************)
(* Configuration and inputs                                                *)
(***************************************************************************)
\* Voting::Voting(): the defaults given to addParameter; m_radius is set by the
\* concrete voting strategy (bandwidth or bin size)
DefaultParams ==
    [m_minThreshold |-> Zero, m_minVotesThreshold |-> 1, m_bestK |-> -1,
     m_averageRotation |-> FALSE, m_radiusType |-> "Config", m_radiusFactor |-> One,
     m_max_filter_type |-> "None", m_single_object_max_type |-> "None",
     m_use_global_features |-> FALSE, m_global_feature_method |-> "KNN",
     m_global_feature_influence_type |-> 3, m_k_global_features |-> 1,
     m_global_param_min_svm_score |-> [n |-> 7, d |-> 10],
     m_global_param_rate_limit |-> [n |-> 3, d |-> 5],
     m_global_param_weight_factor |-> [n |-> 3, d |-> 2],
     m_radius |-> R(2)]

RadiusTypes == {"Config", "FirstDim", "SecondDim", "Unknown"}

\* the learned (avgHalfMajor, avgHalfMedian) of the two classes
TrainedDimensions ==
    (1 :> [first |-> R(2), second |-> R(1)]) @@ (2 :> [first |-> R(1), second |-> R(2)])

\* weights of the maxima given to filterMaxima and to normalizeWeights
FilterWeights == {0, 1}
NormWeights == {0, 1, 2}

\* a maximum as the aggregation of findMaxima builds it (at least one member vote)
InputMaximum(W) == {Maximum(c, R(p), R(w), One, <<0>>) :
                       c \in Classes, p \in Positions, w \in W}

\* the k-th maximum of the list carries the member vote k - 1: the clusters of
\* one class have no member vote in common
InputMaxima(W) ==
    {[k \in DOMAIN l |-> [l[k] EXCEPT !.voteIndices = <<k - 1>>]] :
        l \in UNION {[1..n -> InputMaximum(W)] : n \in 0..MaxMaxima}}

listVars == <<params, m_id_bb_dimensions_map, f_in, f_merge, f_pc, f_i, f_dirty,
              f_out, f_groups, n_sum>>

findVars == <<m_single_object_mode, scene, fm_pc, fm_classes, fm_clusters, fm_pending,
              fm_maxima, fm_result, fm_strategy, fm_origin, fm_created, fm_ranked, fm_sums>>

vars == <<voteVars, listVars, findVars, engineVars>>

FindIdle ==
    /\ m_single_object_mode = FALSE
    /\ scene = [centroid |-> Zero, model_radius |-> Zero]
    /\ fm_pc = "idle"
    /\ fm_classes = <<>>
    /\ fm_clusters = <<>>
    /\ fm_pending = {}
    /\ fm_maxima = <<>>
    /\ fm_result = <<>>
    /\ fm_strategy = EmptyStore
    /\ fm_origin = <<>>
    /\ fm_created = {}
    /\ fm_ranked = EmptyStore
    /\ fm_sums = <<>>

ListIdle ==
    /\ params = DefaultParams
    /\ m_id_bb_dimensions_map = TrainedDimensions
    /\ f_in = <<>>
    /\ f_merge = FALSE
    /\ f_pc = "idle"
    /\ f_i = 0
    /\ f_dirty = <<>>
    /\ f_out = <<>>
    /\ f_groups = <<>>
    /\ n_sum = <<>>

(***************************************************************************)
(* 4.5 filterMaxima, one iteration of the outer loop per step              *)
(***************************************************************************)
FilterInit ==
    /\ VoteInit
    /\ FindIdle
    /\ \E t \in RadiusTypes : params = [DefaultParams EXCEPT !.m_radiusType = t]
    /\ m_id_bb_dimensions_map = TrainedDimensions
    /\ f_in \in InputMaxima(FilterWeights)
    /\ f_merge \in BOOLEAN
    /\ f_pc = "loop"
    /\ f_i = 1
    /\ f_dirty = [j \in DOMAIN f_in |-> FALSE]
    /\ f_out = <<>>
    /\ f_groups = <<>>
    /\ n_sum = <<>>

\* lines 474-550: one iteration of for(i ...); a dirty i is skipped
FilterIterate ==
    /\ f_pc = "loop"
    /\ f_i <= Len(f_in)
    /\ IF f_dirty[f_i]
       THEN UNCHANGED <<f_dirty, f_out, f_groups>>
       ELSE LET r == FilterSeed(f_in, f_dirty, f_i, f_merge)
            IN /\ f_dirty' = r.dirty
               /\ f_out' = Append(f_out, r.emitted)
               /\ f_groups' = Append(f_groups,
                                 [seed |-> f_i, captured |-> r.captured,
                                  dirtyBefore |-> f_dirty, emitted |-> r.emitted])
    /\ f_i' = f_i + 1
    /\ UNCHANGED <<voteVars, findVars, params, m_id_bb_dimensions_map, f_in, f_merge, f_pc, n_sum>>

\* line 551: return filtered_maxima
FilterReturn ==
    /\ f_pc = "loop"
    /\ f_i > Len(f_in)
    /\ f_pc' = "done"
    /\ UNCHANGED <<voteVars, findVars, params, m_id_bb_dimensions_map, f_in, f_merge, f_i, f_dirty,
                   f_out, f_groups, n_sum>>

FilterNext == (FilterIterate \/ FilterReturn) /\ UNCHANGED engineVars

SpecFilter == FilterInit /\ [][FilterNext]_vars

(***************************************************************************)
(* 4.5 mergeMaxima on a list of maxima                                     *)
(***************************************************************************)
MergeInit ==
    /\ VoteInit
    /\ FindIdle
    /\ params = DefaultParams
    /\ m_id_bb_dimensions_map = TrainedDimensions
    /\ f_in \in InputMaxima(NormWeights)
    /\ f_merge = TRUE
    /\ f_pc = "call"
    /\ f_i = 0
    /\ f_dirty = <<>>
    /\ f_out = <<>>
    /\ f_groups = <<>>
    /\ n_sum = <<>>

\* lines 644-668: VotingMaximum result = mergeMaxima(max_list)
MergeCall ==
    /\ f_pc = "call"
    /\ f_out' = <<mergeMaxima(f_in)>>
    /\ f_pc' = "done"
    /\ UNCHANGED <<voteVars, findVars, params, m_id_bb_dimensions_map, f_in, f_merge, f_i,
                   f_dirty, f_groups, n_sum>>

MergeNext == MergeCall /\ UNCHANGED engineVars

SpecMerge == MergeInit /\ [][MergeNext]_vars

(***************************************************************************)
(* 4.7 normalizeWeights                                                    *)
(***************************************************************************)
NormInit ==
    /\ VoteInit
    /\ FindIdle
    /\ params = DefaultParams
    /\ m_id_bb_dimensions_map = TrainedDimensions
    /\ f_in \in InputMaxima(NormWeights)
    /\ f_merge = FALSE
    /\ f_pc = "call"
    /\ f_i = 0
    /\ f_dirty = <<>>
    /\ f_out = <<>>
    /\ f_groups = <<>>
    /\ n_sum = <<>>

Normalize ==
    /\ f_pc = "call"
    /\ f_out' = normalizeWeights(f_in)
    /\ n_sum' = IF Len(f_in) > 0 THEN Append(n_sum, SeqSum(Weights(f_in))) ELSE n_sum
    /\ f_pc' = "done"
    /\ UNCHANGED <<voteVars, findVars, params, m_id_bb_dimensions_map, f_in, f_merge, f_i, f_dirty,
                   f_groups>>

NormNext == Normalize /\ UNCHANGED engineVars

SpecNorm == NormInit /\ [][NormNext]_vars

(***************************************************************************)
(* 4.2 the clustering strategy (iFindMaxima, pure virtual in Voting)       *)
(***************************************************************************)
\* every vote carries the same bounding box in this model
VoteBoxSize(v) == One

\* one cluster over the member votes S (0-based indices): the centre is the
\* position of the first member, weight and contributions are the vote weights
ClusterOf(votes, S) ==
    LET idx == SortedSeq(S)
        contrib == [k \in 1..Len(idx) |-> R(votes[idx[k] + 1].weight)]
    IN [position |-> IF S = {} THEN Zero ELSE R(votes[idx[1] + 1].position),
        weight |-> SeqSum(contrib),
        voteIndices |-> idx,
        reweightedVotes |-> contrib]

\* smallest member first; the empty cluster before every other
ClusterKey(S) == IF S = {} THEN -1 ELSE CHOOSE x \in S : \A y \in S : x <= y

\* the outputs the contract of 4.2 allows for one class: up to MaxClusters
\* clusters over pairwise disjoint sets of member votes (a cluster may be empty).
\* The parallel for runs the clusters in every order, so one order of the list
\* stands for all of them.
iFindMaxima(votes) ==
    LET sets == SUBSET (0..(Len(votes) - 1))
        lists == UNION {[1..n -> sets] : n \in 0..MaxClusters}
        disjoint(l) == \A a, b \in DOMAIN l : a # b => l[a] \cap l[b] = {}
        ordered(l) == \A a, b \in DOMAIN l : a < b => ClusterKey(l[a]) <= ClusterKey(l[b])
    IN {[k \in DOMAIN l |-> ClusterOf(votes, l[k])] :
           l \in {x \in lists : disjoint(x) /\ ordered(x)}}

(***************************************************************************)
(* The external classifier of global features (4.6)                        *)
(***************************************************************************)
Half == [n |-> 1, d |-> 2]

\* what classifyGlobalFeatures may leave in globalHypothesis: no neighbour found
\* (class 0, score 0) or a class with its score
GlobalHypotheses == {Hypothesis(0, Zero), Hypothesis(1, One), Hypothesis(2, Half)}

(***************************************************************************)
(* 4.3 findMaxima, lines 96-180: aggregation per class and per cluster     *)
(***************************************************************************)
\* size() < m_minVotesThreshold: the int is converted to an unsigned value, so a
\* negative threshold is larger than every size
SizeLess(size, threshold) == IF threshold < 0 THEN TRUE ELSE size < threshold

ClusterSkipped_VotesOffByOne(cl) ==
    \/ Lt(cl.weight, params.m_minThreshold)
    \/ SizeLess(Len(cl.voteIndices), params.m_minVotesThreshold + 1)
    \/ Len(cl.voteIndices) = 0

\* lines 120-126: the two continue statements
ClusterSkipped(cl) ==
    \/ Lt(cl.weight, params.m_minThreshold)
    \/ SizeLess(Len(cl.voteIndices), params.m_minVotesThreshold)
    \/ Len(cl.voteIndices) = 0

AggregateCluster_OneBased(classId, votes, cl) ==
    Maximum(classId, cl.position, cl.weight, One,
            [j \in DOMAIN cl.voteIndices |-> cl.voteIndices[j] + 1])

\* lines 128-167: the maximum of a cluster (rotation averaging is not modelled)
AggregateCluster(classId, votes, cl) ==
    LET maxWeight == SeqSum(cl.reweightedVotes)
        sizeSum == SeqSum([j \in DOMAIN cl.voteIndices |->
                              Mul(cl.reweightedVotes[j],
                                  VoteBoxSize(votes[cl.voteIndices[j] + 1]))])
    IN Maximum(classId, cl.position, cl.weight, Div(sizeSum, maxWeight), cl.voteIndices)

\* lines 82-83 and 96: the early return, else the iterator over m_votes starts
FM_Start ==
    /\ fm_pc = "idle"
    /\ IF DOMAIN m_votes = {}
       THEN /\ fm_pc' = "done"
            /\ UNCHANGED fm_classes
       ELSE /\ fm_pc' = "classes"
            /\ fm_classes' = SortedSeq(DOMAIN m_votes)
    /\ UNCHANGED <<voteVars, listVars, m_single_object_mode, scene, fm_clusters, fm_pending,
                   fm_maxima, fm_result, fm_strategy, fm_origin, fm_created, fm_ranked,
                   fm_sums>>

\* lines 99-111: iFindMaxima on the votes of the current class
FM_FindClusters ==
    /\ fm_pc = "classes"
    /\ \E out \in iFindMaxima(m_votes[Head(fm_classes)]) :
          /\ fm_clusters' = out
          /\ fm_pending' = DOMAIN out
          /\ fm_strategy' = PutBucket(fm_strategy, Head(fm_classes), out)
          /\ IF Len(out) > 0
             THEN /\ fm_pc' = "clusters"
                  /\ UNCHANGED fm_classes
             ELSE /\ fm_classes' = Tail(fm_classes)
                  /\ fm_pc' = IF Len(fm_classes) > 1 THEN "classes" ELSE "global"
    /\ UNCHANGED <<voteVars, listVars, m_single_object_mode, scene, fm_maxima, fm_result,
                   fm_origin, fm_created, fm_ranked, fm_sums>>

\* lines 117-179: one iteration of the parallel for, run by some thread; the
\* iterations run in any order and push_back is inside the critical section
FM_Cluster(i) ==
    /\ fm_pc = "clusters"
    /\ i \in fm_pending
    /\ fm_pending' = fm_pending \ {i}
    /\ LET classId == Head(fm_classes)
           cl == fm_clusters[i]
       IN IF ClusterSkipped(cl)
          THEN UNCHANGED <<fm_maxima, fm_origin>>
          ELSE \E h \in IF params.m_use_global_features /\ ~m_single_object_mode
                        THEN GlobalHypotheses ELSE {Hypothesis(0, Zero)} :
                  LET m == AggregateCluster(classId, m_votes[classId], cl)
                  IN /\ fm_maxima' = Append(fm_maxima, [m EXCEPT !.globalHypothesis = h])
                     /\ fm_origin' = Append(fm_origin, <<classId, i>>)
    /\ IF fm_pending' = {}
       THEN /\ fm_classes' = Tail(fm_classes)
            /\ fm_pc' = IF Len(fm_classes) > 1 THEN "classes" ELSE "global"
       ELSE UNCHANGED <<fm_classes, fm_pc>>
    /\ UNCHANGED <<voteVars, listVars, m_single_object_mode, scene, fm_clusters, fm_result,
                   fm_strategy, fm_created, fm_ranked, fm_sums>>

(***************************************************************************)
(* 4.4 single-object reducers                                              *)
(***************************************************************************)
\* std::exp(-0.5 * u) for u >= 0, kept rational: 1 at 0, 0 at +inf, NaN at NaN
\* and one value strictly between 0 and 1 for every other u
Gauss(u) ==
    IF IsNaN(u) THEN NaN
    ELSE IF u = Zero THEN One
    ELSE IF u.d = 0 THEN Zero
    ELSE Half

Sqr(a) == Mul(a, a)

RECURSIVE SortByKey(_, _)
\* the elements of S ordered by increasing key, ties by increasing element
SortByKey(S, key) ==
    IF S = {} THEN <<>>
    ELSE LET m == CHOOSE x \in S :
                    \A y \in S : Lt(key[x], key[y]) \/ (key[x] = key[y] /\ x <= y)
         IN <<m>> \o SortByKey(S \ {m}, key)

VoteDistSqr(votes, k, query) == Sqr(Sub(R(votes[k + 1].position), query))

\* lines 395-415: the 0-based indices of the votes inside search_dist of the
\* query, nearest first (radiusSearch of the kd-tree over the vote positions)
RadiusSearch(votes, query, search_dist) ==
    SortByKey({k \in 0..(Len(votes) - 1) : Lt(VoteDistSqr(votes, k, query), Sqr(search_dist))},
              [k \in 0..(Len(votes) - 1) |-> VoteDistSqr(votes, k, query)])

RECURSIVE MaxDistSqr(_, _, _)
\* lines 419-428: max_dist after the first k votes
MaxDistSqr(votes, k, query) ==
    IF k = 0 THEN Zero
    ELSE LET rest == MaxDistSqr(votes, k - 1, query)
             dist == VoteDistSqr(votes, k - 1, query)
         IN IF Gt(rest, dist) THEN rest ELSE dist

\* lines 376-458: the maximum computeSingleMaxPerClass creates for one class
SingleMaxOfClass(classId, votes, max_type) ==
    LET query == scene.centroid
        whole == max_type = "COMPLETE_VOTING_SPACE"
        search_dist == IF max_type = "BANDWIDTH" THEN getSearchDistForClass(classId)
                       ELSE IF max_type = "MODEL_RADIUS" THEN scene.model_radius
                       ELSE Zero
        indices == IF whole THEN [k \in 1..Len(votes) |-> k - 1]
                   ELSE RadiusSearch(votes, query, search_dist)
        \* search_dist * search_dist
        distSqr == IF whole THEN MaxDistSqr(votes, Len(votes), query) ELSE Sqr(search_dist)
        density == SeqSum([k \in DOMAIN indices |->
                              Mul(Gauss(Div(VoteDistSqr(votes, indices[k], query), distSqr)),
                                  R(votes[indices[k] + 1].weight))])
    IN Maximum(classId, query, density, One, indices)

\* computeSingleMaxPerClass(points, max_type): one maximum per class of m_votes
computeSingleMaxPerClass(max_type) ==
    LET ids == SortedSeq(DOMAIN m_votes)
    IN [k \in 1..Len(ids) |-> SingleMaxOfClass(ids[k], m_votes[ids[k]], max_type)]

reweightMaximum_Unweighted(max, query, search_dist) == max.weight

\* reweightMaximum(max, query, search_dist)
reweightMaximum(max, query, search_dist) ==
    Mul(Gauss(Div(Sqr(Sub(max.position, query)), Sqr(search_dist))), max.weight)

RECURSIVE MergeClassesFrom(_, _, _, _, _)
\* mergeMaximaForEachClass, lines 579-641: the outer loop from index i on
MergeClassesFrom(max_list, used, i, result, max_type) ==
    IF i > Len(max_list) THEN result
    ELSE IF used[i] THEN MergeClassesFrom(max_list, used, i + 1, result, max_type)
    ELSE
      LET query == scene.centroid
          whole == max_type = "COMPLETE_VOTING_SPACE"
          current_class_id == max_list[i].classId
          search_dist == IF max_type = "BANDWIDTH"
                         THEN getSearchDistForClass(current_class_id)
                         ELSE IF max_type = "MODEL_RADIUS" THEN scene.model_radius
                         ELSE Zero
          inside(k) == whole \/ Lt(Dist(max_list[k].position, query), search_dist)
          taken(k) == IF whole THEN max_list[k]
                      ELSE [max_list[k] EXCEPT
                               !.weight = reweightMaximum(max_list[k], query, search_dist)]
          later == SelectSeq([k \in 1..(Len(max_list) - i) |-> i + k],
                             LAMBDA j : /\ ~used[j]
                                        /\ max_list[j].classId = current_class_id
                                        /\ inside(j))
          members == (IF inside(i) THEN <<i>> ELSE <<>>) \o later
          class_maxima == [k \in 1..Len(members) |-> taken(members[k])]
          used2 == [j \in DOMAIN used |-> used[j] \/ \E k \in DOMAIN members : members[k] = j]
      IN MergeClassesFrom(max_list, used2, i + 1,
                          IF Len(class_maxima) > 0
                          THEN Append(result, mergeMaxima(class_maxima)) ELSE result,
                          max_type)

\* mergeMaximaForEachClass(max_list, points, max_type)
mergeMaximaForEachClass(max_list, max_type) ==
    MergeClassesFrom(max_list, [j \in DOMAIN max_list |-> FALSE], 1, <<>>, max_type)

(***************************************************************************)
(* 4.7 ranking                                                             *)
(***************************************************************************)
sortMaxima_Ascending(maxA, maxB) == Lt(maxA.weight, maxB.weight)

\* Voting::sortMaxima
sortMaxima(maxA, maxB) == Gt(maxA.weight, maxB.weight)

\* std::sort(begin, end, sortMaxima): some permutation in which no element is
\* ordered before one that precedes it (the sort is not stable). With a NaN
\* weight the comparator is no strict weak ordering and the order is unspecified.
Sorted(list) ==
    LET perms == {[k \in DOMAIN list |-> list[f[k]]] : f \in Permutations(DOMAIN list)}
    IN IF \E k \in DOMAIN list : IsNaN(list[k].weight)
       THEN perms
       ELSE {p \in perms : \A a, b \in DOMAIN p : a < b => ~sortMaxima(p[b], p[a])}

\* lines 340-341: only keep the best k maxima, if specified
keepBestK(list) ==
    IF params.m_bestK > 0 /\ Len(list) >= params.m_bestK
    THEN SubSeq(list, 1, params.m_bestK)
    ELSE list

(***************************************************************************)
(* 4.6 fusion of the global hypothesis, findMaxima lines 246-333           *)
(***************************************************************************)
RateLimitHit_AnyWeight(list, i) ==
    \E k \in i..Len(list) : list[k].classId = list[1].globalHypothesis.first

RECURSIVE RateLimitHit(_, _)
\* lines 263-277 and 288-302: the scan from index i on finds the global class
\* among the maxima of weight >= top_weight * m_global_param_rate_limit
RateLimitHit(list, i) ==
    IF i > Len(list) THEN FALSE
    ELSE LET limit == Mul(list[1].weight, params.m_global_param_rate_limit)
             cur_weight == list[i].weight
         IN IF Ge(cur_weight, limit) /\ list[i].classId = list[1].globalHypothesis.first
            THEN TRUE
            ELSE IF Lt(cur_weight, limit) THEN FALSE
            ELSE RateLimitHit(list, i + 1)

TopToGlobalClass_All(list) ==
    [k \in DOMAIN list |-> [list[k] EXCEPT !.classId = list[1].globalHypothesis.first]]

\* maxima.at(0).classId = maxima.at(0).globalHypothesis.first
TopToGlobalClass(list) == [list EXCEPT ![1].classId = list[1].globalHypothesis.first]

\* maxima.at(0) of an empty list throws std::out_of_range
FusionThrows(list) ==
    /\ params.m_global_feature_influence_type \in {1, 2, 3}
    /\ Len(list) = 0

\* lines 249-332 on a list for which at(0) does not throw
Fuse(list) ==
    LET t == params.m_global_feature_influence_type
    IN IF t = 1 \/ t = 2
       THEN IF Gt(list[1].globalHypothesis.second, params.m_global_param_min_svm_score)
            THEN IF t = 1 THEN TopToGlobalClass(list)
                 ELSE IF RateLimitHit(list, 1) THEN TopToGlobalClass(list) ELSE list
            ELSE list
       ELSE IF t = 3
       THEN IF RateLimitHit(list, 1) THEN TopToGlobalClass(list) ELSE list
       ELSE IF t = 4
       THEN [k \in DOMAIN list |->
               IF list[k].classId = list[k].globalHypothesis.first
               THEN [list[k] EXCEPT !.weight = Mul(@, params.m_global_param_weight_factor)]
               ELSE list[k]]
       ELSE IF t = 5
       THEN [k \in DOMAIN list |->
               IF list[k].classId = list[k].globalHypothesis.first
               THEN [list[k] EXCEPT !.weight = Mul(@, Add(One, list[k].globalHypothesis.second))]
               ELSE list[k]]
       ELSE IF t = 6
       THEN [k \in DOMAIN list |->
               LET w1 == list[k].weight
                   w2 == list[k].globalHypothesis.second
               IN [list[k] EXCEPT !.weight = Sub(Add(w1, w2), Mul(w1, w2))]]
       ELSE list

(***************************************************************************)
(* findMaxima, lines 182-352: the stages behind the aggregation            *)
(***************************************************************************)
\* lines 206-237: filtered_maxima
FilterStage(list) ==
    IF m_single_object_mode
    THEN LET t == params.m_single_object_max_type
         IN IF t = "VotingSpaceVotes" THEN computeSingleMaxPerClass("COMPLETE_VOTING_SPACE")
            ELSE IF t = "BandwidthVotes" THEN computeSingleMaxPerClass("BANDWIDTH")
            ELSE IF t = "ModelRadiusVotes" THEN computeSingleMaxPerClass("MODEL_RADIUS")
            ELSE IF t = "VotingSpaceMaxima"
                 THEN mergeMaximaForEachClass(list, "COMPLETE_VOTING_SPACE")
            ELSE IF t = "BandwidthMaxima" THEN mergeMaximaForEachClass(list, "BANDWIDTH")
            ELSE IF t = "ModelRadiusMaxima" THEN mergeMaximaForEachClass(list, "MODEL_RADIUS")
            ELSE list
    ELSE IF params.m_max_filter_type = "Simple" THEN filterMaxima(list, FALSE)
    ELSE IF params.m_max_filter_type = "Merge" THEN filterMaxima(list, TRUE)
    ELSE list

Stage(name, list) == PutBucket(fm_ranked, name, list)

\* lines 183-203: single object mode, the global features of the scene are classified
FM_Global ==
    /\ fm_pc = "global"
    /\ IF params.m_use_global_features /\ m_single_object_mode
       THEN \E h \in GlobalHypotheses :
               LET global_max == [DefaultMax EXCEPT !.globalHypothesis = h,
                                                    !.classId = h.first,
                                                    !.weight = h.second,
                                                    !.position = scene.centroid,
                                                    !.size = One]
               IN fm_maxima' = IF Len(fm_maxima) = 0 THEN <<global_max>>
                               ELSE [k \in DOMAIN fm_maxima |->
                                       [fm_maxima[k] EXCEPT !.globalHypothesis = h]]
       ELSE UNCHANGED fm_maxima
    /\ fm_created' = fm_created \cup SeqToSet(fm_maxima) \cup SeqToSet(fm_maxima')
    /\ fm_ranked' = Stage("aggregated", fm_maxima')
    /\ fm_pc' = "filter"
    /\ UNCHANGED <<voteVars, listVars, m_single_object_mode, scene, fm_classes, fm_clusters,
                   fm_pending, fm_result, fm_strategy, fm_origin, fm_sums>>

\* lines 205-237: the reducer or filter the configuration selects
FM_Filter ==
    /\ fm_pc = "filter"
    /\ fm_maxima' = FilterStage(fm_maxima)
    /\ fm_created' = fm_created \cup SeqToSet(fm_maxima')
                       \cup IF ~m_single_object_mode /\ params.m_max_filter_type = "Merge"
                            THEN FilterMerged(fm_maxima, [j \in DOMAIN fm_maxima |-> FALSE], 1)
                            ELSE {}
    /\ fm_ranked' = Stage("filtered", fm_maxima')
    /\ fm_pc' = "rank"
    /\ UNCHANGED <<voteVars, listVars, m_single_object_mode, scene, fm_classes, fm_clusters,
                   fm_pending, fm_result, fm_strategy, fm_origin, fm_sums>>

SumsAfter(list) ==
    IF Len(list) > 0 THEN Append(fm_sums, SeqSum(Weights(list))) ELSE fm_sums

\* lines 239-243: sort, then normalizeWeights
FM_Rank ==
    /\ fm_pc = "rank"
    /\ \E p \in Sorted(fm_maxima) :
          /\ fm_maxima' = normalizeWeights(p)
          /\ fm_sums' = SumsAfter(p)
    /\ fm_ranked' = Stage("ranked", fm_maxima')
    /\ fm_pc' = "fusion"
    /\ UNCHANGED <<voteVars, listVars, m_single_object_mode, scene, fm_classes, fm_clusters,
                   fm_pending, fm_result, fm_strategy, fm_origin, fm_created>>

\* lines 245-337: the fusion policy, then sort and normalizeWeights again
FM_Fusion ==
    /\ fm_pc = "fusion"
    /\ IF ~params.m_use_global_features
       THEN /\ fm_pc' = "bestk"
            /\ UNCHANGED <<fm_maxima, fm_sums>>
       ELSE IF FusionThrows(fm_maxima)
       THEN /\ fm_pc' = "threw"
            /\ UNCHANGED <<fm_maxima, fm_sums>>
       ELSE /\ fm_pc' = "bestk"
            /\ \E p \in Sorted(Fuse(fm_maxima)) :
                  /\ fm_maxima' = normalizeWeights(p)
                  /\ fm_sums' = SumsAfter(p)
    /\ fm_ranked' = PutBucket(Stage("policy", IF params.m_use_global_features
                                                 /\ ~FusionThrows(fm_maxima)
                                              THEN Fuse(fm_maxima) ELSE fm_maxima),
                              "fused", fm_maxima')
    /\ UNCHANGED <<voteVars, listVars, m_single_object_mode, scene, fm_classes, fm_clusters,
                   fm_pending, fm_result, fm_strategy, fm_origin, fm_created>>

\* lines 339-351: truncation to the best k, return
FM_BestK ==
    /\ fm_pc = "bestk"
    /\ fm_result' = keepBestK(fm_maxima)
    /\ fm_maxima' = fm_result'
    /\ fm_pc' = "done"
    /\ UNCHANGED <<voteVars, listVars, m_single_object_mode, scene, fm_classes, fm_clusters,
                   fm_pending, fm_strategy, fm_origin, fm_created, fm_ranked, fm_sums>>

(***************************************************************************)
(* 6 persistence: iLoadData (binary) and iDataFromJson                     *)
(***************************************************************************)
Encodings == {"binary", "json"}

\* what the classifier path refers to: nothing (empty string, JSON null), no
\* file, a directory, a model file, an archive, an archive tar cannot list or
\* cannot extract, an archive while popen() fails
SvmPaths == {"empty", "missing", "directory", "file", "tar", "tar_unlistable",
             "tar_unextractable", "tar_nopipe"}

\* a dataset: the class ids of the dimension and of the variance entries, per
\* class of the global-feature section the radius of its descriptor, the
\* classifier path, and the sections the input does not hold
Dataset(dims, variances, features, svm, missing) ==
    [dims |-> dims, vars |-> variances, features |-> features, svm |-> svm,
     missing |-> missing]

BaseFeatures == (1 :> 1) @@ (2 :> 2)

FeatureSections == UNION {[K -> {1, 2}] : K \in SUBSET Classes}

Sections == {"dims", "vars", "features"}

\* one section or the path varies, the others are those of a complete dataset
LoadDatasets ==
    {Dataset(d, v, BaseFeatures, "file", {}) : d \in SUBSET Classes, v \in SUBSET Classes}
    \cup {Dataset(Classes, Classes, f, "file", {}) : f \in FeatureSections}
    \cup {Dataset(Classes, Classes, BaseFeatures, p, {}) : p \in SvmPaths}
    \cup {Dataset(Classes, Classes, BaseFeatures, "file", {x}) : x \in Sections}

DimensionsOf(keys) == [c \in keys |-> TrainedDimensions[c]]

VariancesOf(keys) == [c \in keys |-> [first |-> Zero, second |-> Zero]]

\* std::map::insert for every entry of add: the key of an entry already there is kept
InsertAll(map, add) ==
    [c \in DOMAIN map \cup DOMAIN add |-> IF c \in DOMAIN map THEN map[c] ELSE add[c]]

\* the engine's learned data and flags, as a load reads and writes them
EngineData ==
    [dims |-> m_id_bb_dimensions_map, vars |-> m_id_bb_variance_map,
     cloud |-> m_all_global_features_cloud, helper |-> m_flann_helper,
     radii |-> m_average_radii, svm_error |-> m_svm_error]

\* lines 1068-1097 and 1321-1346: the two maps; result "" while the load goes on
LoadBoxes(enc, ds, e) ==
    IF enc = "json"
    THEN IF "dims" \in ds.missing \/ "vars" \in ds.missing
         THEN [e EXCEPT !.result = "false"]
         ELSE [e EXCEPT !.dims = DimensionsOf(ds.dims), !.vars = VariancesOf(ds.vars)]
    ELSE \* the archive ends early: operator>> throws after the maps were cleared
         IF "dims" \in ds.missing
         THEN [e EXCEPT !.dims = <<>>, !.vars = <<>>, !.result = "threw"]
         ELSE IF "vars" \in ds.missing
         THEN [e EXCEPT !.dims = DimensionsOf(ds.dims), !.vars = <<>>, !.result = "threw"]
         ELSE [e EXCEPT !.dims = DimensionsOf(ds.dims), !.vars = VariancesOf(ds.vars)]

\* lines 1100-1182 and 1349-1442: the global features, the helper, the radii
LoadFeatures(enc, ds, e) ==
    IF "features" \in ds.missing
    THEN [e EXCEPT !.cloud = <<>>, !.result = IF enc = "json" THEN "false" ELSE "threw"]
    ELSE IF DOMAIN ds.features = {}
    THEN \* m_all_global_features_cloud->at(0) throws std::out_of_range
         [e EXCEPT !.cloud = <<>>, !.result = "threw"]
    ELSE [e EXCEPT !.cloud = ds.features,
                   !.helper = [made |-> TRUE, db |-> ds.features, built |-> FALSE],
                   !.radii = InsertAll(e.radii, [c \in DOMAIN ds.features |->
                                                    R(ds.features[c])])]

\* lines 1185-1232 and 1445-1495: the classifier path
LoadSvm(enc, ds, e) ==
    IF ds.svm \in {"empty", "missing", "directory"}
    THEN [e EXCEPT !.svm_error = TRUE, !.result = "true"]
    ELSE IF ds.svm = "tar_nopipe"
    THEN \* exec(): popen() failed, std::runtime_error
         [e EXCEPT !.result = "threw"]
    ELSE \* the exit status of tar is not looked at
         [e EXCEPT !.result = "true"]

\* iLoadData(ia) and iDataFromJson(data): the engine data afterwards and the outcome
iLoadData(enc, ds) ==
    LET start == [dims |-> m_id_bb_dimensions_map, vars |-> m_id_bb_variance_map,
                  cloud |-> m_all_global_features_cloud, helper |-> m_flann_helper,
                  radii |-> m_average_radii, svm_error |-> m_svm_error, result |-> ""]
        boxes == LoadBoxes(enc, ds, start)
        features == IF boxes.result # "" THEN boxes
                    ELSE IF ~params.m_use_global_features
                    THEN [boxes EXCEPT !.result = "true"]
                    ELSE LoadFeatures(enc, ds, boxes)
    IN IF features.result # "" THEN features ELSE LoadSvm(enc, ds, features)

NoClassifierCall == \A w \in Workers : cg_pc[w] = "idle"

\* a load of learned data, run between detections
Load(enc, ds) ==
    /\ NoClassifierCall
    /\ Len(e_loads) < MaxLoads
    /\ LET after == iLoadData(enc, ds)
       IN /\ m_id_bb_dimensions_map' = after.dims
          /\ m_id_bb_variance_map' = after.vars
          /\ m_all_global_features_cloud' = after.cloud
          /\ m_flann_helper' = after.helper
          /\ m_average_radii' = after.radii
          /\ m_svm_error' = after.svm_error
          \* lines 1105 and 1183, 1362 and 1443: cleared once the load is at the section
          /\ m_global_features' =
                IF /\ params.m_use_global_features
                   /\ ds.missing \cap {"dims", "vars"} = {}
                   /\ ~(enc = "json" /\ "features" \in ds.missing)
                THEN <<>> ELSE m_global_features
          /\ e_unavailable' = (e_unavailable \/ (after.svm_error /\ ~m_svm_error))
          /\ e_loads' = Append(e_loads, [enc |-> enc, ds |-> ds, result |-> after.result,
                                         global |-> params.m_use_global_features,
                                         before |-> EngineData, after |-> [k \in DOMAIN EngineData |-> after[k]]])
    /\ UNCHANGED <<voteVars, findVars, params, f_in, f_merge, f_pc, f_i, f_dirty, f_out,
                   f_groups, n_sum, m_index_created, cg_pc, cg_method, e_pending, e_builds,
                   e_queries, e_saved, boundingBoxes>>

\* an engine after construction, configured with or without global features
LoadInit ==
    /\ VoteInit
    /\ FindIdle
    /\ \E g \in BOOLEAN : params = [DefaultParams EXCEPT !.m_use_global_features = g]
    /\ m_id_bb_dimensions_map = <<>>
    /\ f_in = <<>> /\ f_merge = FALSE /\ f_pc = "idle" /\ f_i = 0 /\ f_dirty = <<>>
    /\ f_out = <<>> /\ f_groups = <<>> /\ n_sum = <<>>

\* forwardGlobalFeatures(globalFeatures): the training hands over its descriptors
forwardGlobalFeatures(globalFeatures) ==
    /\ e_loads = <<>>
    /\ m_global_features = <<>>
    /\ m_global_features' = globalFeatures
    /\ UNCHANGED <<voteVars, findVars, listVars, m_svm_error, m_index_created, m_flann_helper,
                   m_id_bb_variance_map, m_average_radii, m_all_global_features_cloud, cg_pc,
                   cg_method, e_pending, e_builds, e_queries, e_loads, e_unavailable, e_saved,
                   boundingBoxes>>

\* iSaveData(oa) and iDataToJson(): the sections written, the global features
\* taken from m_global_features
iSaveData ==
    [dims |-> DOMAIN m_id_bb_dimensions_map, vars |-> DOMAIN m_id_bb_variance_map,
     features |-> m_global_features, missing |-> {}]

\* a save between detections; database: the global features the engine works with
Save(enc) ==
    /\ NoClassifierCall
    /\ Len(e_saved) < MaxSaves
    /\ e_saved' = Append(e_saved, [enc |-> enc, ds |-> iSaveData, loads |-> Len(e_loads),
                                   dims |-> m_id_bb_dimensions_map,
                                   vars |-> m_id_bb_variance_map,
                                   database |-> IF m_global_features # <<>>
                                                THEN m_global_features
                                                ELSE m_all_global_features_cloud])
    /\ UNCHANGED <<voteVars, findVars, listVars, m_svm_error, m_index_created, m_flann_helper,
                   m_id_bb_variance_map, m_average_radii, m_all_global_features_cloud, cg_pc,
                   cg_method, e_pending, e_builds, e_queries, e_loads, e_unavailable,
                   m_global_features, boundingBoxes>>

LoadNext ==
    \/ \E enc \in Encodings : \E ds \in LoadDatasets : Load(enc, ds)
    \/ \E enc \in Encodings : Save(enc)
    \/ \E f \in {BaseFeatures, (1 :> 2)} : forwardGlobalFeatures(f)

SpecLoad == LoadInit /\ [][LoadNext]_vars

(***************************************************************************)
(* The maxima-based reducers of single object mode on a list of maxima     *)
(***************************************************************************)
\* lines 206-229 with a maxima-based SingleObjectMaxType: filtered_maxima
ReduceCall ==
    /\ f_pc = "call"
    /\ f_out' = FilterStage(f_in)
    /\ f_pc' = "done"
    /\ UNCHANGED <<voteVars, findVars, params, m_id_bb_dimensions_map, f_in, f_merge, f_i,
                   f_dirty, f_groups, n_sum, engineVars>>

\* a scene with its centroid at 0 and its farthest point at distance 3
ReduceInit ==
    /\ VoteInit
    /\ m_votes = EmptyStore
    /\ m_single_object_mode = TRUE
    /\ scene = [centroid |-> Zero, model_radius |-> R(3)]
    /\ fm_pc = "idle" /\ fm_classes = <<>> /\ fm_clusters = <<>> /\ fm_pending = {}
    /\ fm_maxima = <<>> /\ fm_result = <<>> /\ fm_strategy = EmptyStore /\ fm_origin = <<>>
    /\ fm_created = {} /\ fm_ranked = EmptyStore /\ fm_sums = <<>>
    /\ params \in {[DefaultParams EXCEPT !.m_single_object_max_type = t] :
                      t \in {"VotingSpaceMaxima", "BandwidthMaxima", "ModelRadiusMaxima"}}
    /\ m_id_bb_dimensions_map = TrainedDimensions
    /\ f_in \in InputMaxima(NormWeights)
    /\ f_merge = FALSE /\ f_pc = "call" /\ f_i = 0 /\ f_dirty = <<>>
    /\ f_out = <<>> /\ f_groups = <<>> /\ n_sum = <<>>

SpecReduce == ReduceInit /\ [][ReduceCall]_vars

(***************************************************************************)
(* determineAverageBoundingBoxDimensions                                   *)
(***************************************************************************)
\* lines 952-962: med starts as size[0] and moves on while it equals max or min
MedianOf(size) ==
    LET max == CHOOSE x \in SeqToSet(size) : \A y \in SeqToSet(size) : y <= x
        min == CHOOSE x \in SeqToSet(size) : \A y \in SeqToSet(size) : x <= y
        med1 == IF size[1] = max \/ size[1] = min THEN size[2] ELSE size[1]
    IN [max |-> max,
        med |-> IF med1 = max \/ med1 = min THEN size[3] ELSE med1]

RECURSIVE AccuBoxes(_, _)
\* lines 965-968 over the first k boxes of one class
AccuBoxes(boxes, k) ==
    IF k = 0 THEN [max |-> Zero, maxSqr |-> Zero, med |-> Zero, medSqr |-> Zero]
    ELSE LET a == AccuBoxes(boxes, k - 1)
             max == Mul(R(MedianOf(boxes[k]).max), Half)
             med == Mul(R(MedianOf(boxes[k]).med), Half)
         IN [max |-> Add(a.max, max), maxSqr |-> Add(a.maxSqr, Sqr(max)),
             med |-> Add(a.med, med), medSqr |-> Add(a.medSqr, Sqr(med))]

\* determineAverageBoundingBoxDimensions(boundingBoxes): both maps, written anew
determineAverageBoundingBoxDimensions(boxes) ==
    LET mean(c, f) == Div(AccuBoxes(boxes[c], Len(boxes[c]))[f], R(Len(boxes[c])))
    IN [dims |-> [c \in DOMAIN boxes |->
                     [first |-> mean(c, "max"), second |-> mean(c, "med")]],
        vars |-> [c \in DOMAIN boxes |->
                     [first |-> Sub(mean(c, "maxSqr"), Sqr(mean(c, "max"))),
                      second |-> Sub(mean(c, "medSqr"), Sqr(mean(c, "med")))]]]

\* the training calls it once, with the boxes of the classes it has seen; the
\* extents of the training boxes: all different, two equal, all equal
Learn ==
    /\ boundingBoxes = <<>>
    /\ \E K \in SUBSET Classes :
         \E boxes \in [K -> UNION {[1..n -> {<<3, 2, 1>>, <<1, 3, 2>>, <<2, 1, 3>>,
                                             <<2, 2, 1>>, <<1, 1, 2>>, <<2, 1, 2>>,
                                             <<2, 2, 2>>}] : n \in 1..MaxBoxes}] :
            LET learned == determineAverageBoundingBoxDimensions(boxes)
            IN /\ m_id_bb_dimensions_map' = learned.dims
               /\ m_id_bb_variance_map' = learned.vars
               /\ boundingBoxes' = <<boxes>>
    /\ UNCHANGED <<voteVars, findVars, params, f_in, f_merge, f_pc, f_i, f_dirty, f_out,
                   f_groups, n_sum, m_svm_error, m_index_created, m_flann_helper,
                   m_average_radii, m_all_global_features_cloud, cg_pc, cg_method, e_pending,
                   e_builds, e_queries, e_loads, e_unavailable, m_global_features, e_saved>>

\* an engine that holds no dimensions yet, or those of an earlier load
BoxesInit ==
    /\ VoteInit /\ FindIdle /\ params = DefaultParams
    /\ m_id_bb_dimensions_map \in {<<>>, TrainedDimensions}
    /\ f_in = <<>> /\ f_merge = FALSE /\ f_pc = "idle" /\ f_i = 0 /\ f_dirty = <<>>
    /\ f_out = <<>> /\ f_groups = <<>> /\ n_sum = <<>>

SpecBoxes == BoxesInit /\ [][Learn]_vars

(***************************************************************************)
(* classifyGlobalFeatures: one step per statement, one call per iteration  *)
(* of the parallel loop of findMaxima, the iterations spread over threads  *)
(***************************************************************************)
Strategies == {"KNN", "SVM", "Other"}

\* the learned data of the engine runs: complete, the classifier path varies
EngineDatasets ==
    {Dataset(Classes, Classes, BaseFeatures, p, {}) : p \in {"file", "missing"}}

listIdleVars == <<m_id_bb_dimensions_map, f_in, f_merge, f_pc, f_i, f_dirty, f_out, f_groups,
                  n_sum>>

\* GlobalFeaturesStrategy, set by the caller between detections
Configure(m) ==
    /\ NoClassifierCall
    /\ e_pending = {}
    /\ params.m_global_feature_method # m
    /\ params' = [params EXCEPT !.m_global_feature_method = m]
    /\ UNCHANGED <<voteVars, findVars, listIdleVars, engineVars>>

\* findMaxima with global features, several objects: the parallel loop over the
\* n clusters of class c starts
Detect(c, n) ==
    /\ NoClassifierCall
    /\ e_pending = {}
    /\ params.m_use_global_features
    /\ m_flann_helper.made
    /\ c \in DOMAIN m_average_radii
    /\ Len(e_queries) + n <= MaxQueries
    /\ e_pending' = 1..n
    /\ UNCHANGED <<voteVars, findVars, listIdleVars, params, m_svm_error, m_index_created,
                   m_flann_helper, m_id_bb_variance_map, m_average_radii,
                   m_all_global_features_cloud, cg_pc, cg_method, e_builds, e_queries,
                   e_loads, e_unavailable,
                   m_global_features, e_saved, boundingBoxes>>

\* a thread takes an iteration and enters classifyGlobalFeatures
CG_Enter(w) ==
    /\ cg_pc[w] = "idle"
    /\ \E i \in e_pending : e_pending' = e_pending \ {i}
    /\ cg_pc' = [cg_pc EXCEPT ![w] = "fallback"]
    /\ cg_method' = [cg_method EXCEPT ![w] = params.m_global_feature_method]
    /\ UNCHANGED <<voteVars, findVars, listIdleVars, params, m_svm_error, m_index_created,
                   m_flann_helper, m_id_bb_variance_map, m_average_radii,
                   m_all_global_features_cloud, e_builds, e_queries, e_loads,
                   e_unavailable,
                   m_global_features, e_saved, boundingBoxes>>

FallbackMethod_Never(svm_error, method) == method

\* if(m_svm_error) m_global_feature_method = "KNN";
FallbackMethod(svm_error, method) == IF svm_error THEN "KNN" ELSE method

\* every thread of one loop stores the same characters, so the stores of two
\* threads leave "KNN" in whatever order they land
CG_Fallback(w) ==
    /\ cg_pc[w] = "fallback"
    /\ params' = [params EXCEPT !.m_global_feature_method = FallbackMethod(m_svm_error, @)]
    /\ cg_pc' = [cg_pc EXCEPT ![w] = "check"]
    /\ UNCHANGED <<voteVars, findVars, listIdleVars, m_svm_error, m_index_created,
                   m_flann_helper, m_id_bb_variance_map, m_average_radii,
                   m_all_global_features_cloud, cg_method, e_pending, e_builds, e_queries,
                   e_loads, e_unavailable,
                   m_global_features, e_saved, boundingBoxes>>

\* if(!m_index_created): the flag is read with no lock held
CG_Check(w) ==
    /\ cg_pc[w] = "check"
    /\ cg_pc' = [cg_pc EXCEPT ![w] = IF m_index_created THEN "query" ELSE "build"]
    /\ UNCHANGED <<voteVars, findVars, listIdleVars, params, m_svm_error, m_index_created,
                   m_flann_helper, m_id_bb_variance_map, m_average_radii,
                   m_all_global_features_cloud, cg_method, e_pending, e_builds, e_queries,
                   e_loads, e_unavailable,
                   m_global_features, e_saved, boundingBoxes>>

\* m_flann_helper->buildIndex(m_distanceType, 1);
CG_Build(w) ==
    /\ cg_pc[w] = "build"
    /\ m_flann_helper' = [m_flann_helper EXCEPT !.built = TRUE]
    /\ e_builds' = e_builds + 1
    /\ cg_pc' = [cg_pc EXCEPT ![w] = "flag"]
    /\ UNCHANGED <<voteVars, findVars, listIdleVars, params, m_svm_error, m_index_created,
                   m_id_bb_variance_map, m_average_radii, m_all_global_features_cloud,
                   cg_method, e_pending, e_queries, e_loads, e_unavailable,
                   m_global_features, e_saved, boundingBoxes>>

\* m_index_created = true;
CG_Flag(w) ==
    /\ cg_pc[w] = "flag"
    /\ m_index_created' = TRUE
    /\ cg_pc' = [cg_pc EXCEPT ![w] = "query"]
    /\ UNCHANGED <<voteVars, findVars, listIdleVars, params, m_svm_error, m_flann_helper,
                   m_id_bb_variance_map, m_average_radii, m_all_global_features_cloud,
                   cg_method, e_pending, e_builds, e_queries, e_loads, e_unavailable,
                   m_global_features, e_saved, boundingBoxes>>

\* the strategy branch taken: KNN, SVM or neither
CG_Query(w) ==
    /\ cg_pc[w] = "query"
    /\ e_queries' = Append(e_queries, [configured |-> cg_method[w],
                                       method |-> params.m_global_feature_method,
                                       unavailable |-> e_unavailable,
                                       built |-> m_flann_helper.built,
                                       loads |-> Len(e_loads)])
    /\ cg_pc' = [cg_pc EXCEPT ![w] = "idle"]
    /\ UNCHANGED <<voteVars, findVars, listIdleVars, params, m_svm_error, m_index_created,
                   m_flann_helper, m_id_bb_variance_map, m_average_radii,
                   m_all_global_features_cloud, cg_method, e_pending, e_builds, e_loads,
                   e_unavailable,
                   m_global_features, e_saved, boundingBoxes>>

\* loads happen between detections
EngineLoad ==
    /\ e_pending = {}
    /\ \E enc \in Encodings : \E ds \in EngineDatasets : Load(enc, ds)

\* clear() between detections
EngineClear ==
    /\ NoClassifierCall
    /\ e_pending = {}
    /\ m_votes # EmptyStore
    /\ Clear
    /\ UNCHANGED <<findVars, listVars, engineVars>>

\* vote() between detections
EngineVote ==
    /\ NoClassifierCall
    /\ e_pending = {}
    /\ m_votes = EmptyStore
    /\ \E c \in Classes :
          m_votes' = PutBucket(m_votes, c, <<[position |-> 0, weight |-> 1, classId |-> c,
                                              uid |-> 0]>>)
    /\ UNCHANGED <<wpc, wvote, wlen, critical, nextUid, returned, overlap, getResult,
                   findVars, listVars, engineVars>>

EngineInit ==
    /\ VoteInit
    /\ FindIdle
    /\ \E m \in {"KNN", "SVM"} :
          params = [DefaultParams EXCEPT !.m_use_global_features = TRUE,
                                         !.m_global_feature_method = m]
    /\ m_id_bb_dimensions_map = <<>>
    /\ f_in = <<>> /\ f_merge = FALSE /\ f_pc = "idle" /\ f_i = 0 /\ f_dirty = <<>>
    /\ f_out = <<>> /\ f_groups = <<>> /\ n_sum = <<>>

EngineNext ==
    \/ EngineLoad
    \/ \E m \in Strategies : Configure(m)
    \/ \E c \in Classes : \E n \in 1..MaxClusters : Detect(c, n)
    \/ \E w \in Workers : CG_Enter(w)
    \/ \E w \in Workers : CG_Fallback(w)
    \/ \E w \in Workers : CG_Check(w)
    \/ \E w \in Workers : CG_Build(w)
    \/ \E w \in Workers : CG_Flag(w)
    \/ \E w \in Workers : CG_Query(w)
    \/ EngineVote
    \/ EngineClear

SpecEngine == EngineInit /\ [][EngineNext]_vars

(***************************************************************************)
(* Detection passes: the vote stores and configurations explored           *)
(***************************************************************************)
FindPositions == {0, 3}

StoreVote(c) == {[position |-> p, weight |-> w, classId |-> c, uid |-> 0] :
                    p \in FindPositions, w \in VoteWeights}

StoreVotes(c) == UNION {[1..n -> StoreVote(c)] : n \in 1..MaxStoreVotes}

RECURSIVE StoreSize(_, _)
StoreSize(store, keys) ==
    IF keys = {} THEN 0
    ELSE LET c == CHOOSE x \in keys : TRUE
         IN Len(store[c]) + StoreSize(store, keys \ {c})

\* the stores vote() can leave: a key exists only with at least one vote
Stores ==
    LET all == UNION {{f \in [K -> UNION {StoreVotes(c) : c \in K}] :
                          \A c \in K : f[c] \in StoreVotes(c)} : K \in SUBSET Classes}
    IN {f \in all : StoreSize(f, DOMAIN f) <= MaxStoreVotes}

\* thresholds of the aggregation
ThresholdParams ==
    {[DefaultParams EXCEPT !.m_minThreshold = R(t), !.m_minVotesThreshold = v] :
        t \in {0, 1}, v \in {-1, 0, 1, 2}}

\* filters and truncation, several objects
FilterParams ==
    {[DefaultParams EXCEPT !.m_max_filter_type = f] : f \in {"Simple", "Merge", "Unknown"}}
    \cup {[DefaultParams EXCEPT !.m_bestK = k] : k \in {1, 2}}

InfluenceTypes == 0..6

\* fusion with the global hypothesis
FusionParams ==
    {[DefaultParams EXCEPT !.m_use_global_features = TRUE,
                           !.m_global_feature_influence_type = t] : t \in InfluenceTypes}

SingleObjectMaxTypes ==
    {"None", "VotingSpaceVotes", "BandwidthVotes", "ModelRadiusVotes",
     "VotingSpaceMaxima", "BandwidthMaxima", "ModelRadiusMaxima"}

\* single object mode
SingleParams ==
    {[DefaultParams EXCEPT !.m_single_object_max_type = t, !.m_use_global_features = g] :
        t \in SingleObjectMaxTypes, g \in BOOLEAN}

\* a BinOrBandwidthType that is none of the three names, with the operations
\* that ask getSearchDistForClass for their radius
UnknownRadiusParams(single) ==
    IF single
    THEN {[DefaultParams EXCEPT !.m_radiusType = "Unknown", !.m_single_object_max_type = t] :
             t \in {"BandwidthVotes", "BandwidthMaxima"}}
    ELSE {[DefaultParams EXCEPT !.m_radiusType = "Unknown", !.m_max_filter_type = f] :
             f \in {"Simple", "Merge"}}

FindInit ==
    /\ VoteIdle
    /\ m_votes \in Stores
    /\ \/ /\ m_single_object_mode = FALSE
          /\ params \in ThresholdParams \cup FilterParams \cup FusionParams
                           \cup UnknownRadiusParams(FALSE)
       \/ /\ m_single_object_mode = TRUE
          /\ params \in SingleParams \cup UnknownRadiusParams(TRUE)
    /\ scene = [centroid |-> Zero, model_radius |-> One]
    /\ m_id_bb_dimensions_map = TrainedDimensions
    /\ f_in = <<>> /\ f_merge = FALSE /\ f_pc = "idle" /\ f_i = 0 /\ f_dirty = <<>>
    /\ f_out = <<>> /\ f_groups = <<>> /\ n_sum = <<>>
    /\ fm_pc = "idle"
    /\ fm_classes = <<>>
    /\ fm_clusters = <<>>
    /\ fm_pending = {}
    /\ fm_maxima = <<>>
    /\ fm_result = <<>>
    /\ fm_strategy = EmptyStore
    /\ fm_origin = <<>>
    /\ fm_created = {}
    /\ fm_ranked = EmptyStore
    /\ fm_sums = <<>>

FindSteps ==
    \/ FM_Start
    \/ FM_FindClusters
    \/ \E i \in 1..MaxClusters : FM_Cluster(i)
    \/ FM_Global
    \/ FM_Filter
    \/ FM_Rank
    \/ FM_Fusion
    \/ FM_BestK

FindNext == FindSteps /\ UNCHANGED engineVars

SpecFind == FindInit /\ [][FindNext]_vars

(***************************************************************************)
(* Specification of the vote store                                         *)
(***************************************************************************)
VoteStoreInit == VoteInit /\ ListIdle /\ FindIdle

VoteStoreNext == VoteNext /\ UNCHANGED <<listVars, findVars, engineVars>>

SpecVote == VoteStoreInit /\ [][VoteStoreNext]_vars

\* the votes of class c whose call has returned since the last clear()
ReturnedFor(c) == {v \in returned : v.classId = c}

(* C1: for any interleaving of concurrent vote() calls, once all calls have
   returned every class bucket holds exactly the votes cast with that classId,
   each exactly once: none lost, duplicated or stored under another class. *)
C1_NoVoteLost ==
    AllIdle =>
        /\ DOMAIN m_votes = {v.classId : v \in returned}
        /\ \A c \in DOMAIN m_votes :
              /\ SeqToSet(m_votes[c]) = ReturnedFor(c)
              /\ Len(m_votes[c]) = Cardinality(ReturnedFor(c))

C1_Witness ==
    /\ AllIdle
    /\ overlap
    /\ Cardinality(returned) = MaxCalls
    /\ \E c \in DOMAIN m_votes : Len(m_votes[c]) >= 2

(* C2: getVotes(classId) fails with NotFound exactly when no vote for classId
   was cast since construction or the last clear(); otherwise it returns
   exactly the votes cast for classId since then; the call leaves the store
   unchanged. *)
C2_GetVotes ==
    getResult.called =>
        /\ getResult.notFound <=> (ReturnedFor(getResult.classId) = {})
        /\ ~getResult.notFound =>
              /\ SeqToSet(getResult.votes) = ReturnedFor(getResult.classId)
              /\ Len(getResult.votes) = Cardinality(ReturnedFor(getResult.classId))
        /\ m_votes = getResult.before

C2_Witness ==
    /\ getResult.called
    /\ getResult.notFound
    /\ nextUid >= 2
    /\ m_votes = EmptyStore

C2_WitnessFound ==
    /\ getResult.called
    /\ ~getResult.notFound
    /\ Len(getResult.votes) = 2

(* C6: for a non-empty maxima list with all weights >= 0 and a positive sum,
   normalizeWeights replaces every weight w by w / sum, the weights afterwards
   sum to 1 and the relative order of the maxima is unchanged. *)
C6_Precondition ==
    /\ Len(f_in) > 0
    /\ \A k \in DOMAIN f_in : Ge(f_in[k].weight, Zero)
    /\ Gt(SeqSum(Weights(f_in)), Zero)

C6_Normalized ==
    (f_pc = "done" /\ C6_Precondition) =>
        /\ Len(f_out) = Len(f_in)
        /\ \A k \in DOMAIN f_in :
              /\ Mul(f_out[k].weight, SeqSum(Weights(f_in))) = f_in[k].weight
              /\ [f_out[k] EXCEPT !.weight = Zero] = [f_in[k] EXCEPT !.weight = Zero]
        /\ SeqSum(Weights(f_out)) = One
        /\ \A j, k \in DOMAIN f_in :
              Lt(f_in[j].weight, f_in[k].weight) <=> Lt(f_out[j].weight, f_out[k].weight)

C6_Witness ==
    /\ f_pc = "done"
    /\ C6_Precondition
    /\ Len(f_in) = 3
    /\ f_in[1].weight = R(1) /\ f_in[2].weight = R(0) /\ f_in[3].weight = R(2)
    /\ f_out[3].weight = [n |-> 2, d |-> 3]
    /\ f_out[1].weight = [n |-> 1, d |-> 3]

\* the members of a group: the seed and the maxima it captured
GroupMembers(g) == {g.seed} \cup {g.captured[k] : k \in DOMAIN g.captured}

RadiusOf(k) == getSearchDistForClass(f_in[k].classId)

(* C8: in filterMaxima (both policies) a maximum B is absorbed into the group
   of a maximum A only if dist(A, B) < rA and rB <= rA, rX being the adaptive
   search distance of X's class; a maximum of a class with a larger radius is
   never absorbed by one with a smaller radius. *)
C8_AbsorbOnlyIfContained ==
    \A n \in DOMAIN f_groups :
        LET g == f_groups[n]
        IN \A k \in DOMAIN g.captured :
              LET A == g.seed
                  B == g.captured[k]
              IN /\ Lt(Dist(f_in[A].position, f_in[B].position), RadiusOf(A))
                 /\ Le(RadiusOf(B), RadiusOf(A))
                 /\ ~Gt(RadiusOf(B), RadiusOf(A))

C8_Witness ==
    /\ f_pc = "done"
    /\ \E n \in DOMAIN f_groups :
          \E k \in DOMAIN f_groups[n].captured :
              Lt(RadiusOf(f_groups[n].captured[k]), RadiusOf(f_groups[n].seed))
    /\ \E i, j \in DOMAIN f_in :
          /\ i < j
          /\ Lt(Dist(f_in[i].position, f_in[j].position), RadiusOf(i))
          /\ Gt(RadiusOf(j), RadiusOf(i))
          /\ ~f_dirty[i] /\ ~f_dirty[j]

(* C9: when filterMaxima processes a not-yet-consumed maximum i it captures
   every other not-yet-consumed maximum j with dist(i, j) < r_i and
   r_j <= r_i, whatever the position of j in the input list. *)
C9_CapturesAllContained ==
    \A n \in DOMAIN f_groups :
        LET g == f_groups[n]
        IN \A j \in DOMAIN f_in \ {g.seed} :
              ( /\ ~g.dirtyBefore[j]
                /\ Lt(Dist(f_in[g.seed].position, f_in[j].position), RadiusOf(g.seed))
                /\ Le(RadiusOf(j), RadiusOf(g.seed)) )
              => j \in GroupMembers(g)

\* the part of C9 the loop does fulfil: every such j behind i in the list is captured
C9_CapturesAllLater ==
    \A n \in DOMAIN f_groups :
        LET g == f_groups[n]
        IN \A j \in DOMAIN f_in :
              ( /\ j > g.seed
                /\ ~g.dirtyBefore[j]
                /\ Lt(Dist(f_in[g.seed].position, f_in[j].position), RadiusOf(g.seed))
                /\ Le(RadiusOf(j), RadiusOf(g.seed)) )
              => j \in GroupMembers(g)

(* C10: under the filter-only policy, for every group exactly one maximum is
   emitted, it is one of the group's input maxima unchanged, and its weight is
   the largest weight in the group, for all non-negative weights including
   groups whose weights are all 0. *)
C10_KeepsHeaviestMember ==
    ~f_merge =>
        /\ Len(f_out) = Len(f_groups)
        /\ \A n \in DOMAIN f_groups :
              LET g == f_groups[n]
              IN /\ f_out[n] = g.emitted
                 /\ \E k \in GroupMembers(g) : g.emitted = f_in[k]
                 /\ \A k \in GroupMembers(g) : Ge(g.emitted.weight, f_in[k].weight)

\* the same statement for the groups that hold a maximum of positive weight
C10_KeepsHeaviestPositive ==
    ~f_merge =>
        /\ Len(f_out) = Len(f_groups)
        /\ \A n \in DOMAIN f_groups :
              LET g == f_groups[n]
              IN (\E k \in GroupMembers(g) : Gt(f_in[k].weight, Zero)) =>
                    /\ f_out[n] = g.emitted
                    /\ \E k \in GroupMembers(g) : g.emitted = f_in[k]
                    /\ \A k \in GroupMembers(g) : Ge(g.emitted.weight, f_in[k].weight)

\* the step-wise loop and the function agree
FilterStepwiseIsFunction == f_pc = "done" => f_out = filterMaxima(f_in, f_merge)

(***************************************************************************)
(* Claims on a detection pass (SpecFind)                                   *)
(***************************************************************************)
ValidIndices(m) ==
    \A k \in DOMAIN m.voteIndices :
        /\ m.classId \in DOMAIN m_votes
        /\ m.voteIndices[k] \in 0..(Len(m_votes[m.classId]) - 1)

\* C3: every maximum created during a detection pass (by the aggregation of a
\* cluster, by the single-object reducers, by mergeMaxima) has only voteIndices
\* entries that are valid indices into the vote list of its classId.
C3_VoteIndicesValid == \A m \in fm_created : ValidIndices(m)

\* a pass under the merge policy has merged two clusters of one class, and the
\* merged maximum carries the member votes of both
C3_Witness ==
    /\ fm_pc = "done"
    /\ params.m_max_filter_type = "Merge"
    /\ "aggregated" \in DOMAIN fm_ranked
    /\ Len(fm_ranked["aggregated"]) = 2
    /\ \E m \in fm_created : Len(m.voteIndices) = 2 /\ m \in SeqToSet(fm_result)

\* the maxima the parallel for appended for cluster i of class c
AppendedFor(c, i) == {k \in DOMAIN fm_origin : fm_origin[k] = <<c, i>>}

AppendedAsBuilt ==
    \A k \in DOMAIN fm_origin :
        LET c == fm_origin[k][1]
            cl == fm_strategy[c][fm_origin[k][2]]
            m == fm_ranked["aggregated"][k]
        IN m.classId = c /\ m.weight = cl.weight /\ m.voteIndices = cl.voteIndices

PassesThresholds(cl) ==
    /\ Ge(cl.weight, params.m_minThreshold)
    /\ Len(cl.voteIndices) >= params.m_minVotesThreshold

\* C4 as claimed: for every class the aggregation appends exactly one maximum
\* for each cluster whose weight is >= MinThreshold and whose member-vote count
\* is >= MinVotesThreshold, and none for a cluster failing either test.
C4_OnePerPassingCluster ==
    (fm_pc = "filter" /\ ~m_single_object_mode) =>
        /\ Len(fm_origin) = Len(fm_ranked["aggregated"])
        /\ AppendedAsBuilt
        /\ \A c \in DOMAIN fm_strategy : \A i \in DOMAIN fm_strategy[c] :
              Cardinality(AppendedFor(c, i))
                  = IF PassesThresholds(fm_strategy[c][i]) THEN 1 ELSE 0

\* the two continue statements: the count is compared as an unsigned value and
\* a cluster without member votes is skipped
Accepted(cl) ==
    /\ PassesThresholds(cl)
    /\ params.m_minVotesThreshold >= 0
    /\ Len(cl.voteIndices) > 0

\* C4 as amended: exactly one maximum for each cluster that has at least one
\* member vote, weight >= MinThreshold and a member-vote count >= MinVotesThreshold
\* compared as unsigned values (a negative MinVotesThreshold rejects every
\* cluster), none for any other cluster, whatever the order of the iterations.
C4_OnePerAcceptedCluster ==
    (fm_pc = "filter" /\ ~m_single_object_mode) =>
        /\ Len(fm_origin) = Len(fm_ranked["aggregated"])
        /\ AppendedAsBuilt
        /\ \A c \in DOMAIN fm_strategy : \A i \in DOMAIN fm_strategy[c] :
              Cardinality(AppendedFor(c, i)) = IF Accepted(fm_strategy[c][i]) THEN 1 ELSE 0

\* in one pass a cluster was appended and another cluster of the same class,
\* with one member vote, was not
C4_Witness ==
    /\ fm_pc = "filter"
    /\ ~m_single_object_mode
    /\ \E c \in DOMAIN fm_strategy : \E i, j \in DOMAIN fm_strategy[c] :
          /\ Cardinality(AppendedFor(c, i)) = 1
          /\ Len(fm_strategy[c][j].voteIndices) = 1
          /\ AppendedFor(c, j) = {}

\* a class with a single vote is dropped when MinVotesThreshold = 2
C4_WitnessDropped ==
    /\ fm_pc = "filter"
    /\ ~m_single_object_mode
    /\ params.m_minVotesThreshold = 2
    /\ \E c \in DOMAIN fm_strategy : \E i \in DOMAIN fm_strategy[c] :
          /\ Len(m_votes[c]) = 1
          /\ Len(fm_strategy[c][i].voteIndices) = 1
          /\ AppendedFor(c, i) = {}

\* no element is followed by one of greater weight
NonIncreasing(list) ==
    \A a, b \in DOMAIN list : a < b => ~Gt(list[b].weight, list[a].weight)

Min(a, b) == IF a <= b THEN a ELSE b

\* C5: the list findMaxima returns is ordered by non-increasing weight; with
\* BestK = k > 0 and n >= k maxima it is the first k of that ordering (length
\* min(n, k)), and with BestK <= 0 nothing is truncated.
C5_SortedAndTruncated ==
    (fm_pc = "done" /\ "fused" \in DOMAIN fm_ranked) =>
        LET ranked == fm_ranked["fused"]
            k == params.m_bestK
        IN /\ NonIncreasing(ranked)
           /\ NonIncreasing(fm_result)
           /\ fm_result = IF k > 0 THEN SubSeq(ranked, 1, Min(Len(ranked), k)) ELSE ranked

\* two maxima of different weight were ranked and BestK = 1 kept the heavier
C5_Witness ==
    /\ fm_pc = "done"
    /\ params.m_bestK = 1
    /\ "fused" \in DOMAIN fm_ranked
    /\ Len(fm_ranked["fused"]) = 2
    /\ Gt(fm_ranked["fused"][1].weight, fm_ranked["fused"][2].weight)
    /\ fm_result = <<fm_ranked["fused"][1]>>

\* C7: whenever findMaxima reports at least one maximum, every call of
\* normalizeWeights in that pass divided by a sum > 0 and every returned weight
\* is >= 0, in every mode.
C7_PositiveSums ==
    (fm_pc = "done" /\ Len(fm_result) >= 1) =>
        /\ \A k \in DOMAIN fm_sums : Gt(fm_sums[k], Zero)
        /\ \A k \in DOMAIN fm_result : Ge(fm_result[k].weight, Zero)

(***************************************************************************)
(* Claims on filterMaxima and mergeMaxima, continued (SpecFilter)          *)
(***************************************************************************)
\* the members of a group in the order of close_maxima: the captured, then the seed
MembersInOrder(g) == [k \in 1..(Len(g.captured) + 1) |->
                        IF k <= Len(g.captured) THEN f_in[g.captured[k]] ELSE f_in[g.seed]]

SameClass(g, c) == SelectSeq(MembersInOrder(g), LAMBDA m : m.classId = c)

ClassSum(g, c) == SeqSum(Weights(SameClass(g, c)))

RECURSIVE ConcatIndices(_)
ConcatIndices(list) ==
    IF Len(list) = 0 THEN <<>> ELSE Head(list).voteIndices \o ConcatIndices(Tail(list))

MergedAsClaimed(g) ==
    LET c == g.emitted.classId
    IN /\ Len(SameClass(g, c)) > 0
       /\ \A k \in GroupMembers(g) : Ge(ClassSum(g, c), ClassSum(g, f_in[k].classId))
       /\ g.emitted.weight = ClassSum(g, c)
       /\ g.emitted.voteIndices = ConcatIndices(SameClass(g, c))

\* C11: under the merge-then-filter policy, for every group of a maximum i and
\* its captured neighbours the emitted maximum belongs to the class whose group
\* members have the largest summed weight, its weight equals that sum, and its
\* voteIndices is the concatenation of the voteIndices of those members.
C11_MergeKeepsHeaviestClass ==
    f_merge => \A n \in DOMAIN f_groups : MergedAsClaimed(f_groups[n])

\* the same statement for the groups that hold a maximum of positive weight
C11_MergeKeepsHeaviestPositive ==
    f_merge => \A n \in DOMAIN f_groups :
                  (\E k \in GroupMembers(f_groups[n]) : Gt(f_in[k].weight, Zero))
                      => MergedAsClaimed(f_groups[n])

GroupsOf(k) == {n \in DOMAIN f_groups : k \in GroupMembers(f_groups[n])}

\* C12: in filterMaxima every input maximum belongs to exactly one group, as
\* its seed or as a captured neighbour; a captured maximum is never used as a
\* seed and never captured a second time, and the output has one maximum per
\* group, so it is never longer than the input.
C12_GroupsPartition ==
    /\ \A k \in DOMAIN f_in : Cardinality(GroupsOf(k)) <= 1
    /\ \A n \in DOMAIN f_groups :
          LET g == f_groups[n]
          IN /\ \A a, b \in DOMAIN g.captured : a # b => g.captured[a] # g.captured[b]
             /\ \A m \in DOMAIN f_groups : \A a \in DOMAIN g.captured :
                   g.captured[a] # f_groups[m].seed
    /\ Len(f_out) = Len(f_groups)
    /\ Len(f_out) <= Len(f_in)
    /\ f_pc = "done" => \A k \in DOMAIN f_in : Cardinality(GroupsOf(k)) = 1

\* a call has returned with a group of a seed and a captured neighbour and a
\* second group behind it
C12_Witness ==
    /\ f_pc = "done"
    /\ Len(f_groups) = 2
    /\ Len(f_groups[1].captured) = 1
    /\ f_groups[1].captured[1] < f_groups[2].seed
    /\ Len(f_out) = 2
    /\ Len(f_in) = 3

(***************************************************************************)
(* Claims on mergeMaxima (SpecMerge)                                       *)
(***************************************************************************)
SameAsInput(result, m) ==
    /\ result.weight = m.weight
    /\ result.position = m.position
    /\ result.size = m.size
    /\ result.classId = m.classId

\* C13: mergeMaxima applied to a list holding a single maximum m returns a
\* maximum with the same weight, position, bounding box and classId as m, for
\* every m including one of weight 0.
C13_SingleUnchanged ==
    (f_pc = "done" /\ Len(f_in) = 1) => SameAsInput(f_out[1], f_in[1])

\* the same statement for a maximum of positive weight
C13_SinglePositiveUnchanged ==
    (f_pc = "done" /\ Len(f_in) = 1 /\ Gt(f_in[1].weight, Zero))
        => SameAsInput(f_out[1], f_in[1])

(***************************************************************************)
(* Claims on the fusion stage of a detection pass (SpecFind)               *)
(***************************************************************************)
FusionApplied(t) ==
    /\ fm_pc \in {"bestk", "done", "threw"}
    /\ "policy" \in DOMAIN fm_ranked
    /\ params.m_use_global_features
    /\ params.m_global_feature_influence_type = t

\* C14: applying fusion policy 3 to a sorted maxima list changes nothing
\* except possibly the classId of the element at index 0: the number of maxima,
\* all weights and positions and the classId of every other element stay.
C14_Policy3OnlyTopClass ==
    FusionApplied(3) =>
        LET before == fm_ranked["ranked"]
            after == fm_ranked["policy"]
        IN /\ Len(after) = Len(before)
           /\ \A k \in DOMAIN before :
                 /\ [after[k] EXCEPT !.classId = before[k].classId] = before[k]
                 /\ k > 1 => after[k].classId = before[k].classId

\* policy 3 has rewritten the class of the top element of a list of two maxima
C14_Witness ==
    /\ FusionApplied(3)
    /\ Len(fm_ranked["ranked"]) = 2
    /\ fm_ranked["policy"][1].classId # fm_ranked["ranked"][1].classId
    /\ fm_ranked["policy"][1].classId = fm_ranked["ranked"][2].classId

\* some maximum of weight >= GlobalParamRateLimit x topWeight has the global class
GlobalClassAmongTop(list) ==
    \E k \in DOMAIN list :
        /\ Ge(list[k].weight, Mul(list[1].weight, params.m_global_param_rate_limit))
        /\ list[k].classId = list[1].globalHypothesis.first

\* C15: under fusion policy 2 the top maximum's classId is set to the global
\* hypothesis class if and only if the global score exceeds
\* GlobalParamMinSvmScore and some maximum with weight >= GlobalParamRateLimit
\* x topWeight has the global class; the scan, which stops at the first
\* maximum below the rate limit, misses no qualifying maximum.
C15_Policy2TopClass ==
    FusionApplied(2) =>
        LET before == fm_ranked["ranked"]
            after == fm_ranked["policy"]
        IN Len(before) > 0 =>
              after = IF /\ Gt(before[1].globalHypothesis.second,
                               params.m_global_param_min_svm_score)
                         /\ GlobalClassAmongTop(before)
                      THEN [before EXCEPT ![1].classId = before[1].globalHypothesis.first]
                      ELSE before

\* policy 2 has given the top element the class of the second element, which
\* is the global class and lies inside the rate limit
C15_Witness ==
    /\ FusionApplied(2)
    /\ Len(fm_ranked["ranked"]) = 2
    /\ fm_ranked["policy"][1].classId # fm_ranked["ranked"][1].classId
    /\ fm_ranked["policy"][1].classId = fm_ranked["ranked"][2].classId

\* policy 2 has left the top element alone although the global class, with a
\* score above the minimum, is the class of a maximum below the rate limit
C15_WitnessBelowLimit ==
    /\ FusionApplied(2)
    /\ Len(fm_ranked["ranked"]) = 2
    /\ Gt(fm_ranked["ranked"][1].globalHypothesis.second, params.m_global_param_min_svm_score)
    /\ fm_ranked["ranked"][2].classId = fm_ranked["ranked"][1].globalHypothesis.first
    /\ fm_ranked["policy"] = fm_ranked["ranked"]
    /\ fm_ranked["ranked"][1].classId # fm_ranked["ranked"][1].globalHypothesis.first

(***************************************************************************)
(* Claims on loads (SpecLoad)                                              *)
(***************************************************************************)
ArchiveFailures == {"tar_unlistable", "tar_unextractable", "tar_nopipe"}

\* load n got as far as the classifier path
ReachedSvm(n) ==
    /\ e_loads[n].global
    /\ e_loads[n].ds.missing = {}
    /\ DOMAIN e_loads[n].ds.features # {}

\* C18: when the configured classifier path refers to an archive and listing
\* or extracting the archive fails, the load marks the classifier subsystem
\* as unavailable and raises nothing to the caller.
C18_ArchiveFailureMarked ==
    \A n \in DOMAIN e_loads :
        (ReachedSvm(n) /\ e_loads[n].ds.svm \in ArchiveFailures) =>
            /\ e_loads[n].after.svm_error
            /\ e_loads[n].result # "threw"

\* C20: after every load that reports success (binary or JSON) the dimensions
\* map and the variance map have the same set of class ids, for every dataset.
C20_SameKeySets ==
    \A n \in DOMAIN e_loads :
        e_loads[n].result = "true" =>
            DOMAIN e_loads[n].after.dims = DOMAIN e_loads[n].after.vars

\* the same for the datasets whose two sections name the same classes
C20_SameKeySetsOfConsistentData ==
    \A n \in DOMAIN e_loads :
        (e_loads[n].result = "true" /\ e_loads[n].ds.dims = e_loads[n].ds.vars) =>
            DOMAIN e_loads[n].after.dims = DOMAIN e_loads[n].after.vars

(***************************************************************************)
(* Claims on the classifier calls (SpecEngine)                             *)
(***************************************************************************)
\* C16: the nearest-neighbour index is built at most once per engine
\* lifetime: for any interleaving of concurrent first calls of
\* classifyGlobalFeatures issued by the parallel loop of findMaxima,
\* buildIndex runs exactly once.
C16_IndexBuiltOnce ==
    /\ e_builds <= 1
    /\ Len(e_queries) > 0 => e_builds = 1

PathsUnusable == {"empty", "missing", "directory"}

\* one of the first k loads has found no usable classifier file
UnavailableSince(k) ==
    \E n \in 1..k : ReachedSvm(n) /\ e_loads[n].ds.svm \in PathsUnusable

\* C17: once a load has recorded the classifier as unavailable, every later
\* classifyGlobalFeatures call uses the KNN strategy, whatever strategy is
\* configured and whatever loads, votes, clear() calls or detections happen
\* in between, and no later operation clears the flag.
C17_StickyFallback ==
    /\ UnavailableSince(Len(e_loads)) => m_svm_error
    /\ \A k \in DOMAIN e_queries :
          UnavailableSince(e_queries[k].loads) => e_queries[k].method = "KNN"

\* a call configured for SVM has run KNN although the load before it found a
\* usable classifier file: an earlier load had not, and votes were cast since
C17_Witness ==
    /\ m_votes # EmptyStore
    /\ \E k \in DOMAIN e_queries :
          /\ e_queries[k].loads = 2
          /\ e_loads[1].ds.svm \in PathsUnusable
          /\ e_loads[2].ds.svm = "file"
          /\ e_queries[k].configured = "SVM"
          /\ e_queries[k].method = "KNN"

(***************************************************************************)
(* Claims on unrecognized configuration values (SpecFind)                  *)
(***************************************************************************)
Occurrences(list, x) == Cardinality({k \in DOMAIN list : list[k] = x})

\* the two lists hold the same maxima, each as often
SameElements(a, b) ==
    /\ Len(a) = Len(b)
    /\ \A x \in SeqToSet(a) \cup SeqToSet(b) : Occurrences(a, x) = Occurrences(b, x)

\* the value that selects the operation of the filtering stage is none of the
\* names the stage knows
FilterUnselected ==
    \/ params.m_radiusType \notin {"Config", "FirstDim", "SecondDim"}
    \/ IF m_single_object_mode
       THEN params.m_single_object_max_type \notin SingleObjectMaxTypes \ {"None"}
       ELSE params.m_max_filter_type \notin {"Simple", "Merge"}

FusionUnselected ==
    /\ params.m_use_global_features
    /\ params.m_global_feature_influence_type \notin 1..6

\* C19: an unrecognized BinOrBandwidthType, MaxFilterType, SingleObjectMaxType
\* or fusion-policy value acts as no operation selected: the maxima list
\* leaves the filtering stage and the fusion stage with the elements, weights
\* and classes it entered with, in every mode, and no error is raised.
C19_UnrecognizedIsNoOp ==
    /\ (FilterUnselected /\ "filtered" \in DOMAIN fm_ranked) =>
          SameElements(fm_ranked["filtered"], fm_ranked["aggregated"])
    /\ (FusionUnselected /\ "fused" \in DOMAIN fm_ranked) =>
          SameElements(fm_ranked["fused"], fm_ranked["ranked"])
    /\ FusionUnselected => fm_pc # "threw"

\* the same with a recognized BinOrBandwidthType
C19_UnrecognizedIsNoOpKnownRadius ==
    params.m_radiusType \in {"Config", "FirstDim", "SecondDim"} => C19_UnrecognizedIsNoOp

\* the same for several objects, whatever the BinOrBandwidthType
C19_UnrecognizedIsNoOpSeveralObjects ==
    ~m_single_object_mode => C19_UnrecognizedIsNoOp

(***************************************************************************)
(* Further claims on loads (SpecLoad)                                      *)
(***************************************************************************)
\* load n, with global features, got as far as the global-feature section
ReachedFeatures(n) ==
    /\ e_loads[n].global
    /\ "dims" \notin e_loads[n].ds.missing
    /\ "vars" \notin e_loads[n].ds.missing

NoDescriptors(ds) == "features" \in ds.missing \/ DOMAIN ds.features = {}

\* C22: with UseGlobalFeatures enabled, loading a dataset whose
\* global-feature section is missing or holds no descriptor ends with the
\* load returning false, in the JSON and in the binary loader, and no load
\* reports success with an empty global-feature database.
C22_NoDescriptorsFailLoad ==
    \A n \in DOMAIN e_loads :
        /\ (ReachedFeatures(n) /\ NoDescriptors(e_loads[n].ds)) => e_loads[n].result = "false"
        /\ (e_loads[n].global /\ e_loads[n].result = "true") => e_loads[n].after.cloud # <<>>

\* the part of C22 the loaders keep: no success with an empty database
C22_NoSuccessWithoutDescriptors ==
    \A n \in DOMAIN e_loads :
        /\ (ReachedFeatures(n) /\ NoDescriptors(e_loads[n].ds)) => e_loads[n].result # "true"
        /\ (e_loads[n].global /\ e_loads[n].result = "true") => e_loads[n].after.cloud # <<>>

\* C26: after every successful load with global features enabled, a second
\* load included, averageRadius[c] is the mean radius of the class-c
\* descriptors of the dataset just loaded, and averageRadius has entries
\* only for the classes of that dataset.
C26_RadiiOfLoadedDataset ==
    \A n \in DOMAIN e_loads :
        (e_loads[n].global /\ e_loads[n].result = "true") =>
            e_loads[n].after.radii =
                [c \in DOMAIN e_loads[n].ds.features |-> R(e_loads[n].ds.features[c])]

\* the same for the loads into an engine that holds no radius yet
C26_RadiiOfFirstDataset ==
    \A n \in DOMAIN e_loads :
        (e_loads[n].global /\ e_loads[n].result = "true" /\ e_loads[n].before.radii = <<>>) =>
            e_loads[n].after.radii =
                [c \in DOMAIN e_loads[n].ds.features |-> R(e_loads[n].ds.features[c])]

LearnedData(e) == [dims |-> e.dims, vars |-> e.vars, cloud |-> e.cloud]

\* C27: a load that reports failure leaves the learned data as it was: when
\* iDataFromJson returns false, the dimensions map, the variance map and the
\* global-feature database hold the values they had before the load.
C27_FailedLoadChangesNothing ==
    \A n \in DOMAIN e_loads :
        e_loads[n].result = "false" =>
            LearnedData(e_loads[n].after) = LearnedData(e_loads[n].before)

\* the same for the loads that fail on a missing bounding-box section
C27_FailedBoxesChangeNothing ==
    \A n \in DOMAIN e_loads :
        (e_loads[n].result = "false" /\ ~ReachedFeatures(n)) =>
            LearnedData(e_loads[n].after) = LearnedData(e_loads[n].before)

(***************************************************************************)
(* Claims on saving and loading (SpecLoad)                                 *)
(***************************************************************************)
\* load n, with global features, reads what save k wrote
ReadsSave(n, k) ==
    /\ e_loads[n].global
    /\ n > e_saved[k].loads
    /\ e_loads[n].enc = e_saved[k].enc
    /\ [x \in DOMAIN e_saved[k].ds |-> e_loads[n].ds[x]] = e_saved[k].ds

RoundTrip(n, k) ==
    /\ e_loads[n].after.dims = e_saved[k].dims
    /\ e_loads[n].after.vars = e_saved[k].vars
    /\ e_loads[n].after.cloud = e_saved[k].database

\* C21: for each encoding, saving an engine's learned data and loading it
\* into an engine yields the same bounding-box dimensions, variances and
\* global-feature database, also when the saving engine had loaded its data
\* (load, save, load preserves the global-feature database).
C21_RoundTrips ==
    \A k \in DOMAIN e_saved : \A n \in DOMAIN e_loads :
        ReadsSave(n, k) => RoundTrip(n, k)

\* the same for the saves of an engine that got its descriptors from training
C21_RoundTripsOfTrained ==
    \A k \in DOMAIN e_saved : \A n \in DOMAIN e_loads :
        (ReadsSave(n, k) /\ e_saved[k].ds.features # <<>>) => RoundTrip(n, k)

(***************************************************************************)
(* Claims on the learned box dimensions (SpecBoxes)                        *)
(***************************************************************************)
\* the largest extent and the extent in the middle of the three
Extents(size) ==
    LET mid == CHOOSE x \in SeqToSet(size) :
                  /\ Cardinality({i \in 1..3 : size[i] <= x}) >= 2
                  /\ Cardinality({i \in 1..3 : size[i] >= x}) >= 2
    IN [max |-> CHOOSE x \in SeqToSet(size) : \A y \in SeqToSet(size) : y <= x,
        med |-> mid]

\* the mean over the boxes of half the extent f
MeanHalf(boxes, f) ==
    Div(SeqSum([k \in DOMAIN boxes |-> Mul(R(Extents(boxes[k])[f]), Half)]), R(Len(boxes)))

\* C25: determineAverageBoundingBoxDimensions stores for every class of its
\* input (mean of half the largest extent, mean of half the median extent),
\* the median picked correctly also for boxes with equal extents, and both
\* maps get exactly the input's class ids as keys.
C25_AverageHalfExtents ==
    \A n \in DOMAIN boundingBoxes :
        /\ DOMAIN m_id_bb_dimensions_map = DOMAIN boundingBoxes[n]
        /\ DOMAIN m_id_bb_variance_map = DOMAIN boundingBoxes[n]
        /\ \A c \in DOMAIN boundingBoxes[n] :
              m_id_bb_dimensions_map[c] = [first |-> MeanHalf(boundingBoxes[n][c], "max"),
                                           second |-> MeanHalf(boundingBoxes[n][c], "med")]

\* the same for boxes whose three extents differ
C25_AverageHalfExtentsDistinct ==
    (\A n \in DOMAIN boundingBoxes : \A c \in DOMAIN boundingBoxes[n] :
        \A k \in DOMAIN boundingBoxes[n][c] :
            Cardinality(SeqToSet(boundingBoxes[n][c][k])) = 3) => C25_AverageHalfExtents

(***************************************************************************)
(* Claims on the index of the loaded database (SpecEngine)                 *)
(***************************************************************************)
\* C28: in every sequence of loads and detections, whenever
\* classifyGlobalFeatures runs a KNN query the search index of the database
\* loaded last has been built: the first query after a second load builds
\* the index of the new database before it searches.
C28_IndexBuiltBeforeQuery ==
    \A k \in DOMAIN e_queries :
        e_queries[k].method = "KNN" => e_queries[k].built

\* the same for the queries of an engine that has loaded once
C28_IndexBuiltAfterFirstLoad ==
    \A k \in DOMAIN e_queries :
        (e_queries[k].method = "KNN" /\ e_queries[k].loads = 1) => e_queries[k].built

(***************************************************************************)
(* Claims on the maxima-based reducers (SpecReduce)                        *)
(***************************************************************************)
\* the kernel the claim gives maximum m under the configured policy: none
\* when m lies outside the policy's radius, 1 in the whole voting space
ClaimedKernel(m) ==
    LET t == params.m_single_object_max_type
        r == IF t = "BandwidthMaxima" THEN getSearchDistForClass(m.classId)
             ELSE scene.model_radius
        d == AbsR(Sub(m.position, scene.centroid))
    IN IF t = "VotingSpaceMaxima" THEN One
       ELSE IF Lt(d, r) THEN Gauss(Div(Mul(d, d), Mul(r, r)))
       ELSE Zero

InsideOfClass(list, c) ==
    SelectSeq(list, LAMBDA m : m.classId = c /\ ClaimedKernel(m) # Zero)

ReducerDone ==
    /\ f_pc = "done"
    /\ params.m_single_object_max_type \in
          {"VotingSpaceMaxima", "BandwidthMaxima", "ModelRadiusMaxima"}

VotesBasedTypes == {"VotingSpaceVotes", "BandwidthVotes", "ModelRadiusVotes"}

\* the list is at the fusion stage of a single-object pass with global features
SingleAtFusion ==
    /\ m_single_object_mode
    /\ params.m_use_global_features
    /\ "ranked" \in DOMAIN fm_ranked

\* C24: in single-object mode with global features enabled, when the fusion
\* policy is applied every maximum in the list carries the global hypothesis
\* computed for this detection (or the list is the substituted global
\* maximum), for every SingleObjectMaxType, the votes-based types included.
C24_GlobalHypothesisOnAll ==
    SingleAtFusion =>
        \A k \in DOMAIN fm_ranked["ranked"] :
            fm_ranked["ranked"][k].globalHypothesis =
                fm_ranked["aggregated"][1].globalHypothesis

\* the same for the types that are not votes-based
C24_GlobalHypothesisOnAllMaximaBased ==
    params.m_single_object_max_type \notin VotesBasedTypes => C24_GlobalHypothesisOnAll

(***************************************************************************)
(* Claims on the fusion of an empty list (SpecFind)                        *)
(***************************************************************************)
\* C29: with global features enabled and fusion policy 1, 2 or 3, findMaxima
\* never reads the top element of an empty maxima list: for every non-empty
\* vote store, mode and filter or single-object setting, the list is
\* non-empty when fusion runs or fusion is skipped, and findMaxima returns.
C29_FusionNeverOnEmpty ==
    (/\ params.m_use_global_features
     /\ params.m_global_feature_influence_type \in {1, 2, 3}
     /\ m_votes # EmptyStore) => fm_pc # "threw"

\* the policies that do not read the top element return on every list
C29_OtherPoliciesReturn ==
    params.m_global_feature_influence_type \notin {1, 2, 3} => fm_pc # "threw"

\* C30: every maximum findMaxima returns has voteIndices that are valid
\* indices into the vote list of the classId it is returned with, also after
\* fusion policy 1, 2 or 3 has rewritten the classId of the top maximum to the
\* class of the global hypothesis.
C30_ReturnedIndicesValid ==
    fm_pc = "done" => \A k \in DOMAIN fm_result : ValidIndices(fm_result[k])

\* the same without a fusion policy that rewrites the classId
C30_ReturnedIndicesValidUnfused ==
    (/\ fm_pc = "done"
     /\ ~(/\ params.m_use_global_features
          /\ params.m_global_feature_influence_type \in {1, 2, 3}))
        => \A k \in DOMAIN fm_result : ValidIndices(fm_result[k])

====
